---- MODULE Spec2Model ----
(***************************************************************************)
(* Verification model of banano-demo:                                       *)
(*   - src/utils/openrouter.ts         generateImage (response parsing)    *)
(*   - src/components/ImageGenerator.tsx                                   *)
(*         withTimeout, generateSingleImageWithRetry, generateAllImages,   *)
(*         regenerateImage, retryAllFailed and the controls that start     *)
(*         them                                                            *)
(*   - src/StoryApp.tsx                the steps of the application, its   *)
(*         handlers and the controls of the pages that call them.          *)
(*                                                                         *)
(* Specifications that share the module:                                   *)
(*   SpecParse  generateImage applied to a bounded family of envelopes     *)
(*   SpecRequest  the request generateSingleImage composes, for a bounded  *)
(*              family of props                                            *)
(*   SpecTransport  generateImage and generateText against a bounded       *)
(*              family of HTTP responses                                   *)
(*   SpecRetry  one call of generateSingleImageWithRetry, any maxRetries   *)
(*   Spec       the application from its first render: the handlers of     *)
(*              StoryApp (src/StoryApp.tsx) and the controls of the pages  *)
(*              that call them, and the ImageGenerator component: its      *)
(*              React state, the closures its callbacks capture, and its   *)
(*              asynchronous handlers interleaved at their suspension      *)
(*              points                                                     *)
(***************************************************************************)
EXTENDS Integers, Sequences, FiniteSets, TLC

VARIABLES
    \* ---- SpecParse: the envelope handed to generateImage, its outcome, and the
    \* strings in the records it wrote to the console
    envelope, parsed, logged,
    \* ---- SpecRequest: the props and storyboard generateSingleImage runs with, and
    \* what it did
    gsiIn, gsiOut,
    \* ---- SpecIdentity: what ensureReferenceImage did for the same props
    eriOut,
    \* ---- SpecTransport: the function called with the HTTP response it will get,
    \* and what the call did
    httpIn, httpOut,
    \* ---- SpecRetry: one generateSingleImageWithRetry call under test, the
    \* outcomes of its attempts so far ("ok", "api", "timeout") and the delay of
    \* the backoff it slept last (<<>> before the first; rw.sleeps counts them)
    rw, rwLog, rwSlept,
    \* ---- Spec: React state of ImageGenerator (useState, lines 20-25)
    generatedImages, currentGenerating, progress, error, referenceReady, failedIds,
    \* state of the parent StoryApp (src/StoryApp.tsx, lines 13-24) handed down as
    \* props: the API key ("" while none is set), the URL of the character image (""
    \* while there is none), the story, the character description
    \* (characterTextPrompt) and the storyboards (0: the empty list, 1: the
    \* storyboards StoryboardGenerator handed over)
    apiKey, characterImage, story, characterTextPrompt, storyboards,
    \* generatedImages of StoryApp's state, which the result page shows
    appGeneratedImages,
    \* the lists of storyboards handed over so far (each has ids of its own), the
    \* object URLs created and those revoked so far, and the clicks on the controls
    \* of StoryApp and of the pages before "generation" (counted anew from the
    \* hand-over of the storyboards)
    sbSets, created, revoked, clicks,
    \* currentStep of StoryApp: ImageGenerator is mounted while it is "generation"
    \* (src/StoryApp.tsx, line 343)
    step,
    \* failedIds as captured by the memoized generateAllImages closure
    gaiFailedIds,
    \* the list last handed to the onImagesGenerated callback
    emitted,
    \* the handler invocations (async functions in progress or finished)
    procs, nops,
    \* the requests still in flight whose attempt was given up at its deadline (the
    \* race of withTimeout does not cancel the fetch), and the attempts given up
    \* while they were still fetching the character image
    abandoned, abandonedFetches,
    \* per storyboard, the invocation whose generation completed most recently
    \* (0: none since the result list was last emptied)
    latest,
    \* history kept by SpecLive only (on = TRUE): per storyboard, the generation
    \* requests issued for it so far
    attempts

parseVars == <<envelope, parsed, logged>>
requestVars == <<gsiIn, gsiOut, eriOut>>
transportVars == <<httpIn, httpOut>>
pureVars == <<parseVars, requestVars, transportVars>>
retryVars == <<rw, rwLog, rwSlept>>
\* what the handlers of ImageGenerator leave alone
parentVars == <<story, characterTextPrompt, storyboards, sbSets, created, revoked, clicks>>
compVars  == <<generatedImages, currentGenerating, progress, error, referenceReady,
               failedIds, apiKey, characterImage, parentVars, appGeneratedImages, step,
               gaiFailedIds, emitted, procs, nops, abandoned, abandonedFetches, latest,
               attempts>>
givenUp == <<abandoned, abandonedFetches>>
auxVars == <<givenUp, latest>>
vars == <<envelope, parsed, logged, gsiIn, gsiOut, eriOut, httpIn, httpOut, rw, rwLog, rwSlept, generatedImages, currentGenerating, progress,
          error, referenceReady, failedIds, apiKey, characterImage, story,
          characterTextPrompt, storyboards, appGeneratedImages, sbSets, created, revoked,
          clicks, step, gaiFailedIds, emitted, procs, nops, abandoned, abandonedFetches, latest,
          attempts>>

(***************************************************************************)
(* JavaScript strings.  TLC evaluates Len, \o and SubSeq on strings, so    *)
(* the string methods the code uses are computed character by character.   *)
(***************************************************************************)
\* String.prototype.startsWith
StartsWith(s, p) == Len(s) >= Len(p) /\ SubSeq(s, 1, Len(p)) = p

\* String.prototype.includes
Includes(s, p) ==
    \E i \in 1..(Len(s) - Len(p) + 1) : SubSeq(s, i, i + Len(p) - 1) = p

Min(a, b) == IF a <= b THEN a ELSE b

\* String.prototype.slice(0, n)
SliceTo(s, n) == IF Len(s) <= n THEN s ELSE SubSeq(s, 1, n)

\* n copies of the one-character string c
RECURSIVE Rep(_, _)
Rep(c, n) ==
    IF n = 0 THEN ""
    ELSE IF n % 2 = 0 THEN LET h == Rep(c, n \div 2) IN h \o h
    ELSE c \o Rep(c, n - 1)

(***************************************************************************)
(* generateImage: the response envelope (src/utils/openrouter.ts).         *)
(*                                                                         *)
(* A JSON field that the code probes is a record [t, s]:                   *)
(*   t = "undef"     the field is absent                                   *)
(*   t = "str"       the field is the string s                             *)
(*   t = "obj"       the field is the object { url: s }                    *)
(*   t = "objNoUrl"  the field is an object without a url                  *)
(***************************************************************************)
NoField == [t |-> "undef", s |-> ""]
StrField(s) == [t |-> "str", s |-> s]
UrlObject(s) == [t |-> "obj", s |-> s]
EmptyObject == [t |-> "objNoUrl", s |-> ""]

\* the length above which an opaque string is taken for base64 (lines 206, 211, ...)
LongThreshold == 1000
\* characters of text quoted in a no-image error (lines 263, 288)
PreviewLen == 200
\* characters of text quoted in a log summary (line 44)
LogPreviewLen == 220

DataPrefix == "data:image"
HttpPrefix == "http"
WrapPrefix == "data:image/png;base64,"

\* outcome of generateImage: an image reference, or an Error
Found(v) == [ok |-> TRUE, v |-> v, kind |-> "image", detail |-> ""]
\* kind "text":  line 263, detail = the quoted content
\* kind "parts": line 289, detail = the quoted text parts
\* kind "none":  line 292
NoImage(kind, detail) == [ok |-> FALSE, v |-> "", kind |-> kind, detail |-> detail]
\* a location that yields nothing: control falls through to the next one
FallThrough == [ok |-> FALSE, v |-> "", kind |-> "fallthrough", detail |-> ""]

\* `x.length > 1000`, mutated: `>=`
IsLongInclusive(s) == Len(s) >= LongThreshold
\* `x.length > 1000` (lines 206, 211, 227, 232, 253, 278)
IsLong(s) == Len(s) > LongThreshold

\* `s.startsWith('data:image') || s.startsWith('http')` (lines 203, 224, 274)
HasUrlPrefix(s) == StartsWith(s, DataPrefix) \/ StartsWith(s, HttpPrefix)

\* `first?.image_url?.url ?? (typeof first?.image_url === 'string' ? first.image_url
\*  : undefined)` (lines 201, 222): the string, when there is one
ImgUrlOf(first) ==
    IF first.image_url.t \in {"obj", "str"} THEN StrField(first.image_url.s) ELSE NoField

\* lines 200-213 and 221-234: what images[0] yields
FromImageEntry(first) ==
    LET imgUrl == ImgUrlOf(first)
        b64 == first.b64_json
    IN  IF imgUrl.t = "str" /\ HasUrlPrefix(imgUrl.s) THEN Found(imgUrl.s)
        ELSE IF imgUrl.t = "str" /\ IsLong(imgUrl.s) THEN Found(WrapPrefix \o imgUrl.s)
        ELSE IF b64.t = "str" /\ IsLong(b64.s) THEN Found(WrapPrefix \o b64.s)
        ELSE FallThrough

\* `Array.isArray(x) && x.length > 0` then images[0] (lines 196, 219)
FromImages(images) ==
    IF images.t = "arr" /\ Len(images.items) > 0
    THEN FromImageEntry(images.items[1])
    ELSE FallThrough

\* `content.slice(0, 200)`, mutated: the log summary's 220
TextPreviewLong(content) == SliceTo(content, LogPreviewLen)
\* `content.slice(0, 200)` (line 263)
TextPreview(content) == SliceTo(content, PreviewLen)

\* lines 249-264: content is a string
FromStringContent(content) ==
    IF Includes(content, DataPrefix) THEN Found(content)
    ELSE IF Includes(content, "base64") /\ IsLong(content) THEN Found(WrapPrefix \o content)
    ELSE NoImage("text", TextPreview(content))

\* `part?.type === 'image_url' || ... 'output_image' || ... 'image'` (line 272)
ImageLike(part) == part.type \in {"image_url", "output_image", "image"}

\* a JavaScript string is truthy when it is not empty
Truthy(f) == f.t = "str" /\ f.s # ""

\* `part?.b64_json || part?.image_base64 || part?.data` (line 277)
PartB64(part) ==
    IF Truthy(part.b64_json) THEN part.b64_json
    ELSE IF Truthy(part.image_base64) THEN part.image_base64
    ELSE part.data

\* lines 272-281: what one part yields
FromPart(part) ==
    IF ~ImageLike(part) THEN FallThrough
    ELSE LET url == part.image_url
             b64 == PartB64(part)
         IN  IF url.t \in {"str", "obj"} /\ HasUrlPrefix(url.s) THEN Found(url.s)
             ELSE IF b64.t = "str" /\ IsLong(b64.s) THEN Found(WrapPrefix \o b64.s)
             ELSE FallThrough

\* `.map(p => p?.text).filter(Boolean).join('\n')` (lines 284-287)
RECURSIVE JoinTexts(_)
JoinTexts(parts) ==
    IF parts = <<>> THEN ""
    ELSE LET rest == JoinTexts(Tail(parts))
             hd == Head(parts).text
         IN  IF ~Truthy(hd) THEN rest
             ELSE IF \E i \in 1..Len(Tail(parts)) : Truthy(Tail(parts)[i].text)
                  THEN hd.s \o "\n" \o rest
                  ELSE hd.s

\* lines 271-282: the first part, in order, that yields an image
RECURSIVE ScanParts(_)
ScanParts(parts) ==
    IF parts = <<>> THEN FallThrough
    ELSE LET r == FromPart(Head(parts))
         IN  IF r.ok THEN r ELSE ScanParts(Tail(parts))

\* lines 267-290: content is an array of parts
FromArrayContent(parts) ==
    LET r == ScanParts(parts)
    IN  IF r.ok THEN r ELSE NoImage("parts", SliceTo(JoinTexts(parts), PreviewLen))

\* `data?.choices?.[0]?.message?.content ?? ''` (line 246)
ContentOf(data) ==
    IF data.content.t \in {"undef", "null"} THEN [t |-> "str", s |-> "", parts |-> <<>>]
    ELSE data.content

\* lines 246-292
FromContent(data) ==
    LET content == ContentOf(data)
    IN  IF content.t = "str" THEN FromStringContent(content.s)
        ELSE IF content.t = "arr" THEN FromArrayContent(content.parts)
        ELSE NoImage("none", "")

\* generateImage with the two images locations probed in the other order
generateImageNestedFirst(data) ==
    LET r1 == FromImages(data.msgImages)
        r0 == FromImages(data.images)
    IN  IF r1.ok THEN r1 ELSE IF r0.ok THEN r0 ELSE FromContent(data)

\* generateImage, lines 195-293: the parsed body `data` to an image reference.
\* data.images is the top-level images, data.msgImages is
\* choices[0].message.images, data.content is choices[0].message.content.
generateImage(data) ==
    LET r0 == FromImages(data.images)
        r1 == FromImages(data.msgImages)
    IN  IF r0.ok THEN r0 ELSE IF r1.ok THEN r1 ELSE FromContent(data)

(***************************************************************************)
(* What generateImage writes to the console for a parsed body (lines 38-88, *)
(* 193-269): the strings held by the records, a logged object counting for *)
(* every string in it.                                                     *)
(***************************************************************************)
\* preview lengths: a part in the summary (line 56), the content head and the joined
\* part types (line 241), the raw string content (line 260)
PartPreviewLen == 200
HeadLen == 50
HeadTypesLen == 120
RawPreviewLen == 5000

FieldStrings(f) == IF f.t \in {"str", "obj"} THEN {f.s} ELSE {}

\* `(part?.text ?? part?.image_url?.url ?? part?.image_url ?? '')?.toString()
\*  .slice(0, 200)` (lines 53-56)
PartPreview(part) ==
    IF part.text.t = "str" THEN SliceTo(part.text.s, PartPreviewLen)
    ELSE IF part.image_url.t \in {"str", "obj"} THEN SliceTo(part.image_url.s, PartPreviewLen)
    ELSE IF part.image_url.t = "objNoUrl" THEN "[object Object]"
    ELSE ""

\* lines 38-69, called on message.content by logOpenRouterSummary (line 75)
summarizeContentForLog(content) ==
    IF content.t = "str" THEN {SliceTo(content.s, LogPreviewLen)}
    ELSE IF content.t = "arr"
    THEN {PartPreview(content.parts[n]) : n \in 1..Min(Len(content.parts), 5)}
    ELSE {}

\* `console.log(..., images.slice(0, 1))` (lines 198, 220): the first entry itself
LoggedImages(images) ==
    IF images.t = "arr" /\ Len(images.items) > 0
    THEN FieldStrings(images.items[1].image_url) \cup FieldStrings(images.items[1].b64_json)
    ELSE {}

\* Array.prototype.join(',') of strings
RECURSIVE JoinComma(_)
JoinComma(strs) ==
    IF strs = <<>> THEN ""
    ELSE IF Len(strs) = 1 THEN Head(strs)
    ELSE Head(strs) \o "," \o JoinComma(Tail(strs))

\* `Object.keys(p)` of a part: the names of the fields it has, in the order in which
\* a part is written here (type, which a part always has, possibly as ""; then
\* image_url, b64_json, image_base64, data, text)
PartKeys(part) ==
    <<"type">>
    \o (IF part.image_url.t # "undef" THEN <<"image_url">> ELSE <<>>)
    \o (IF part.b64_json.t # "undef" THEN <<"b64_json">> ELSE <<>>)
    \o (IF part.image_base64.t # "undef" THEN <<"image_base64">> ELSE <<>>)
    \o (IF part.data.t # "undef" THEN <<"data">> ELSE <<>>)
    \o (IF part.text.t # "undef" THEN <<"text">> ELSE <<>>)

\* `p?.type || Object.keys(p || {})` as join renders it: the type, or for a part whose
\* type is the empty string its key names joined by commas
PartHead(part) == IF part.type # "" THEN part.type ELSE JoinComma(PartKeys(part))

\* `c.map(p => p?.type || Object.keys(p || {})).join(',')` (line 241)
JoinTypes(parts) == JoinComma([n \in 1..Len(parts) |-> PartHead(parts[n])])

\* `typeof c` of a JSON value or undefined
TypeOf(content) ==
    CASE content.t = "str" -> "string"
      [] content.t = "undef" -> "undefined"
      [] content.t = "number" -> "number"
      [] content.t = "boolean" -> "boolean"
      [] content.t \in {"arr", "null", "object"} -> "object"

\* line 241: the head of the content
ContentHead(content) ==
    IF content.t = "str" THEN SliceTo(content.s, HeadLen)
    ELSE IF content.t = "arr" THEN SliceTo(JoinTypes(content.parts), HeadTypesLen)
    ELSE TypeOf(content)

PartStrings(part) ==
    FieldStrings(part.image_url) \cup FieldStrings(part.b64_json)
    \cup FieldStrings(part.image_base64) \cup FieldStrings(part.data)
    \cup FieldStrings(part.text)

\* lines 249-270: a string content that yields no image is logged up to 5000
\* characters; of an array content the first five parts are logged as they are
LoggedContent(content) ==
    IF content.t = "str"
    THEN IF FromStringContent(content.s).ok THEN {}
         ELSE {SliceTo(content.s, RawPreviewLen)}
    ELSE IF content.t = "arr"
    THEN UNION {PartStrings(content.parts[n]) : n \in 1..Min(Len(content.parts), 5)}
    ELSE {}

\* every string generateImage logs for the body `data`, from logOpenRouterSummary
\* (line 193) to its return or throw
consoleLog(data) ==
    summarizeContentForLog(data.content)
    \cup LoggedImages(data.images)
    \cup (IF FromImages(data.images).ok THEN {}
          ELSE LoggedImages(data.msgImages)
               \cup (IF FromImages(data.msgImages).ok THEN {}
                     ELSE {ContentHead(data.content)} \cup LoggedContent(ContentOf(data))))

(***************************************************************************)
(* The envelopes generateImage is applied to: every combination of the     *)
(* pools below.  Strings sit on both sides of LongThreshold and of         *)
(* PreviewLen, with and without the prefixes and substrings the code       *)
(* looks for.                                                              *)
(***************************************************************************)
\* most parts in a content array
MaxParts == 2

Opaque(n) == Rep("A", n)
\* a string of length n that contains "base64"
Tagged(n) == "base64," \o Rep("A", n - 7)

DataUri == "data:image/png;base64,QUJD"
HttpsUrl == "https://cdn.example/a.png"
HttpWord == "httpfoo"
Refusal == "Sorry, I can't generate that."
Embedded == "Here: data:image/png;base64,QUJD"

ImageUrlPool ==
    { NoField, EmptyObject, StrField(DataUri), UrlObject(HttpsUrl), StrField(HttpWord),
      StrField(Opaque(LongThreshold)), UrlObject(Opaque(LongThreshold + 1)) }

B64Pool == { NoField, StrField(Opaque(LongThreshold)), StrField(Opaque(LongThreshold + 1)) }

EntryPool == { [image_url |-> u, b64_json |-> b] : u \in ImageUrlPool, b \in B64Pool }

NoImages == [t |-> "undef", items |-> <<>>]
ImagesArray(items) == [t |-> "arr", items |-> items]

\* top-level images
ImagesPool == { NoImages, ImagesArray(<<>>) } \cup { ImagesArray(<<e>>) : e \in EntryPool }

\* choices[0].message.images
NestedPool ==
    { NoImages,
      ImagesArray(<<[image_url |-> StrField(DataUri), b64_json |-> NoField]>>),
      ImagesArray(<<[image_url |-> StrField(Opaque(LongThreshold)),
                     b64_json |-> StrField(Opaque(LongThreshold + 1))]>>),
      ImagesArray(<<[image_url |-> UrlObject(Opaque(LongThreshold + 1)),
                     b64_json |-> NoField]>>),
      ImagesArray(<<[image_url |-> EmptyObject, b64_json |-> StrField(Opaque(LongThreshold))],
                    [image_url |-> StrField(HttpsUrl), b64_json |-> NoField]>>) }

Part(type, url, b64, imageBase64, data, text) ==
    [type |-> type, image_url |-> url, b64_json |-> b64,
     image_base64 |-> imageBase64, data |-> data, text |-> text]

PartPool ==
    { Part("text", NoField, NoField, NoField, NoField, StrField(Refusal)),
      Part("text", NoField, NoField, NoField, NoField, StrField(Opaque(PreviewLen + 1))),
      Part("image_url", UrlObject(DataUri), NoField, NoField, NoField, NoField),
      Part("image_url", StrField(Opaque(LongThreshold + 1)), NoField, NoField, NoField, NoField),
      Part("image", NoField, StrField(Opaque(LongThreshold + 1)), NoField, NoField, NoField),
      Part("output_image", NoField, StrField(""), StrField(Opaque(LongThreshold)),
           StrField(Opaque(LongThreshold + 1)), NoField),
      Part("video", StrField(HttpsUrl), StrField(Opaque(LongThreshold + 1)), NoField, NoField,
           NoField),
      Part("", NoField, NoField, NoField, NoField, StrField("hi")) }

RECURSIVE SeqsUpTo(_, _)
SeqsUpTo(S, n) ==
    IF n = 0 THEN { <<>> }
    ELSE LET shorter == SeqsUpTo(S, n - 1)
         IN  shorter \cup { Append(q, x) : q \in shorter, x \in S }

StrContent(s) == [t |-> "str", s |-> s, parts |-> <<>>]
ArrContent(parts) == [t |-> "arr", s |-> "", parts |-> parts]
NoContent == [t |-> "undef", s |-> "", parts |-> <<>>]
\* content that is neither a string nor an array: null, a number (s its decimal
\* form), true or false, a plain object such as {a: 1}
NullContent == [t |-> "null", s |-> "", parts |-> <<>>]
NumContent(n) == [t |-> "number", s |-> ToString(n), parts |-> <<>>]
BoolContent(b) == [t |-> "boolean", s |-> IF b THEN "true" ELSE "false", parts |-> <<>>]
OtherContent == [t |-> "object", s |-> "", parts |-> <<>>]

ContentPool ==
    { NoContent, NullContent, NumContent(42), NumContent(0), BoolContent(TRUE),
      BoolContent(FALSE), OtherContent }
    \cup { StrContent(s) : s \in { "", Refusal, DataUri, Embedded, HttpsUrl,
                                   Opaque(PreviewLen), Opaque(PreviewLen + 1),
                                   Opaque(LongThreshold), Opaque(LongThreshold + 1),
                                   Tagged(LongThreshold), Tagged(LongThreshold + 1) } }
    \cup { ArrContent(q) : q \in SeqsUpTo(PartPool, MaxParts) }

Envelopes ==
    { [images |-> i, msgImages |-> m, content |-> c] :
        i \in ImagesPool, m \in NestedPool, c \in ContentPool }

\* generateImage has not returned yet
Pending == [ok |-> FALSE, v |-> "", kind |-> "pending", detail |-> ""]

(***************************************************************************)
(* The request generateSingleImage composes                                *)
(* (src/components/ImageGenerator.tsx, lines 66-128; the message parts are *)
(* built by generateImage, src/utils/openrouter.ts, lines 140-161).        *)
(***************************************************************************)
\* String.prototype.indexOf for a one-character needle: zero-based, -1 when absent
IndexOf(s, c) ==
    LET at == {n \in 1..Len(s) : SubSeq(s, n, n) = c}
    IN  IF at = {} THEN -1 ELSE (CHOOSE n \in at : \A m \in at : n <= m) - 1

\* String.prototype.substring(from) with from >= 0
SubstringFrom(s, from) == SubSeq(s, from + 1, Len(s))

\* U+00A0 (no-break space), U+1680 (ogham space mark), U+FEFF (zero width no-break
\* space)
Nbsp == " "
OghamSpace == " "
Zwnbsp == "﻿"

\* the characters String.prototype.trim removes, of those a string of this module
\* can hold: TAB, LF, VT, FF, CR, the space, U+00A0, U+1680 and U+FEFF.  trim also
\* removes U+2000..U+200A, U+2028, U+2029, U+202F, U+205F and U+3000, which no
\* string literal here can hold
WhiteSpace == {" ", "\t", "\n", "", "\f", "\r", Nbsp, OghamSpace, Zwnbsp}

IsSpace(c) == c \in WhiteSpace

\* String.prototype.trim
RECURSIVE Trim(_)
Trim(s) ==
    IF s = "" THEN ""
    ELSE IF IsSpace(SubSeq(s, 1, 1)) THEN Trim(SubSeq(s, 2, Len(s)))
    ELSE IF IsSpace(SubSeq(s, Len(s), Len(s))) THEN Trim(SubSeq(s, 1, Len(s) - 1))
    ELSE s

\* the length of the story prefix taken for the identity (lines 48, 93)
IdentityLen == 300

\* the fixed template with the four scene fields of the storyboard (lines 70-86)
ScenePrompt(sb) == "scene " \o ToString(sb)

\* getBase64FromImageUrl (src/utils/openrouter.ts, lines 298-322): a data URL is cut
\* after its first comma; any other URL is fetched, and blob is what the fetch gave
getBase64FromImageUrl(url, blob) ==
    IF StartsWith(url, "data:")
    THEN [ok |-> TRUE, base64 |-> SubstringFrom(url, IndexOf(url, ",") + 1)]
    ELSE blob

\* lines 90-94, mutated: the whole story is taken
InferredIdentityWhole(image, prompt, storyText) ==
    IF image = "" /\ prompt = "" /\ storyText # "" THEN storyText ELSE ""
\* lines 90-94: the identity inferred from the story
InferredIdentity(image, prompt, storyText) ==
    IF image = "" /\ prompt = "" /\ storyText # "" THEN SliceTo(storyText, IdentityLen) ELSE ""

\* lines 104-106
IdentityHint(prompt, inferred) ==
    LET identity == IF Trim(prompt) # "" THEN Trim(prompt) ELSE inferred
    IN  IF identity # ""
        THEN "Use this as the main character identity: " \o identity
             \o ". Keep the identity consistent across all scenes."
        ELSE "If a character identity is implied, keep it consistent across scenes."

\* what a call did: whether it reached generateImage, the text part of the request,
\* and the inline image part ("" when the request has none)
Composed(prompt, image) == [done |-> TRUE, sent |-> TRUE, prompt |-> prompt, image |-> image]
NotSent == [done |-> TRUE, sent |-> FALSE, prompt |-> "", image |-> ""]
NotComposed == [done |-> FALSE, sent |-> FALSE, prompt |-> "", image |-> ""]

\* the content parts of the request (src/utils/openrouter.ts, lines 148-161): the
\* image part is added only for a non-empty referenceImageBase64
RequestParts(finalPrompt, referenceImageBase64) ==
    Composed(finalPrompt,
             IF referenceImageBase64 # "" THEN WrapPrefix \o referenceImageBase64 ELSE "")

\* generateSingleImage up to its request (lines 88-115)
generateSingleImage(in) ==
    LET inferredIdentity == InferredIdentity(in.characterImage, in.characterPrompt, in.story)
        prompt == ScenePrompt(in.storyboard)
    IN  IF in.characterImage # ""
        THEN LET got == getBase64FromImageUrl(in.characterImage, in.blob)
             IN  IF got.ok THEN RequestParts(prompt, got.base64) ELSE NotSent
        ELSE RequestParts(prompt \o "\n\n" \o IdentityHint(in.characterPrompt, inferredIdentity),
                          "")

NoBlob == [ok |-> FALSE, base64 |-> ""]

\* the character image prop: absent, a data URL, or a URL that has to be fetched
\* (then with what the fetch gives: a failure or the bytes)
ImageProps ==
    { [characterImage |-> u, blob |-> NoBlob] :
        u \in {"", DataUri, "data:image/jpeg;base64,/9j/4A=="} }
    \cup { [characterImage |-> u, blob |-> b] :
             u \in {HttpsUrl, "blob:https://app.example/1f0c"},
             b \in {NoBlob, [ok |-> TRUE, base64 |-> "RkVUQ0g="]} }

PromptPool == {"", "Mia, a small red fox"}

\* line 50
BootstrapPreface ==
    "Create a clean, front-facing portrait or full-body illustration of the main "
    \o "character for a children's storybook. White or simple background. Rich colors."

\* line 48, mutated: the whole story is taken
BootstrapIdentityWhole(characterPrompt, storyText) ==
    IF Trim(characterPrompt) # "" THEN Trim(characterPrompt) ELSE storyText
\* line 48: `characterPrompt?.trim() || story.slice(0, 300)`
BootstrapIdentity(characterPrompt, storyText) ==
    IF Trim(characterPrompt) # "" THEN Trim(characterPrompt)
    ELSE SliceTo(storyText, IdentityLen)

\* ensureReferenceImage with an API key and no usable character image (lines 47-55):
\* null without a request when the identity is empty, else one request with the
\* preface and the identity and no image part
ensureReferenceImage(in) ==
    LET identity == BootstrapIdentity(in.characterPrompt, in.story)
    IN  IF identity = "" THEN NotSent
        ELSE RequestParts(BootstrapPreface \o "\n\nMain character identity: " \o identity, "")

\* the characterPrompt prop as StoryApp passes it (src/StoryApp.tsx, lines 24, 313,
\* 347): '' until a description is submitted, then the description trimmed, which
\* is not blank (src/unnamed/part_002, lines 91-97)
DescriptionPool == {"", "Mia, a small red fox", "Leo the  brave knight"}

StoryPool ==
    {"", Rep("Q", 50), Rep("Q", IdentityLen), Rep("Q", IdentityLen) \o "Z",
     Rep("Q", IdentityLen) \o Rep("Z", 200)}

IdentityInputs ==
    { [characterImage |-> "", blob |-> NoBlob, characterPrompt |-> c, story |-> t,
       storyboard |-> sb] :
        c \in DescriptionPool, t \in StoryPool, sb \in 1..3 }

RequestInputs ==
    { [characterImage |-> i.characterImage, blob |-> i.blob, characterPrompt |-> c,
       story |-> t, storyboard |-> sb] :
        i \in ImageProps, c \in PromptPool, t \in StoryPool, sb \in 1..3 }

RequestIdle ==
    /\ gsiIn = [characterImage |-> "", blob |-> NoBlob, characterPrompt |-> "", story |-> "",
                storyboard |-> 1]
    /\ gsiOut = NotComposed
    /\ eriOut = NotComposed

(***************************************************************************)
(* The HTTP exchange of generateImage and generateText                     *)
(* (src/utils/openrouter.ts, lines 93-129 and 174-193).                    *)
(***************************************************************************)
\* the reason phrase of HTTP/1.1 for the statuses of the pool
ReasonPhrase ==
    [status \in {200, 201, 299, 300, 304, 400, 401, 429, 500, 503} |->
        CASE status = 200 -> "OK"
          [] status = 201 -> "Created"
          [] status = 299 -> "Custom"
          [] status = 300 -> "Multiple Choices"
          [] status = 304 -> "Not Modified"
          [] status = 400 -> "Bad Request"
          [] status = 401 -> "Unauthorized"
          [] status = 429 -> "Too Many Requests"
          [] status = 500 -> "Internal Server Error"
          [] status = 503 -> "Service Unavailable"]

StatusPool == {200, 201, 299, 300, 304, 400, 401, 429, 500, 503}

\* `response.ok`, mutated: every status below 400 counts as a success
ResponseOkBelow400(status) == status < 400
\* `response.ok` of the Fetch API: the status is in the range 200-299 (lines 122, 188)
ResponseOk(status) == status >= 200 /\ status <= 299

\* `OpenRouter API 错误: ${response.status} ${response.statusText}` (lines 123, 189)
HttpError(status, statusText) ==
    [ok |-> FALSE, v |-> "", kind |-> "http",
     detail |-> ToString(status) \o " " \o statusText]

\* the JSON bodies generateText is given: choices absent, choices empty, or a first
\* choice with its message content
NoChoices == [choices |-> "undef", content |-> NoContent]
EmptyChoices == [choices |-> "empty", content |-> NoContent]
FirstChoice(content) == [choices |-> "one", content |-> content]

TextBodyPool ==
    { NoChoices, EmptyChoices }
    \cup { FirstChoice(c) :
             c \in { NoContent, NullContent, StrContent(""), StrContent("1. A fox wakes up."),
                     NumContent(0), NumContent(42), BoolContent(FALSE), BoolContent(TRUE),
                     OtherContent, ArrContent(<<>>),
                     ArrContent(<<Part("text", NoField, NoField, NoField, NoField,
                                       StrField(Refusal))>>) } }

ImageBodyPool ==
    { [images |-> NoImages, msgImages |-> NoImages, content |-> c] :
        c \in { NoContent, StrContent(Refusal), StrContent(DataUri) } }
    \cup { [images |-> ImagesArray(<<[image_url |-> StrField(HttpsUrl), b64_json |-> NoField]>>),
            msgImages |-> NoImages, content |-> StrContent(Refusal)],
           [images |-> NoImages,
            msgImages |-> ImagesArray(<<[image_url |-> UrlObject(DataUri),
                                         b64_json |-> NoField]>>),
            content |-> NoContent],
           [images |-> NoImages, msgImages |-> NoImages,
            content |-> ArrContent(<<Part("image", NoField,
                                          StrField(Opaque(LongThreshold + 1)),
                                          NoField, NoField, NoField)>>)] }

\* a JavaScript value that `||` passes over: undefined, null, '', 0, false
Falsy(content) ==
    \/ content.t \in {"undef", "null"}
    \/ content.t = "str" /\ content.s = ""
    \/ content.t = "number" /\ content.s = "0"
    \/ content.t = "boolean" /\ content.s = "false"

\* what generateText returned: the value itself, a string or not
Returned(value) == [ok |-> TRUE, v |-> value, kind |-> "value", detail |-> ""]

\* `data.choices[0]?.message?.content || ''` (line 128); reading [0] of an absent
\* choices throws a TypeError
TextOf(body) ==
    IF body.choices = "undef" THEN NoImage("typeError", "")
    ELSE IF body.choices = "one" /\ ~Falsy(body.content)
         THEN Returned(body.content)
         ELSE Returned(StrContent(""))

\* what one call did: HTTP requests issued, whether response.json() was called, and
\* the value returned or the error thrown
Exchange(fetches, jsonRead, result) ==
    [done |-> TRUE, fetches |-> fetches, jsonRead |-> jsonRead, result |-> result]

NotCalled == [done |-> FALSE, fetches |-> 0, jsonRead |-> FALSE, result |-> Pending]
\* at `await fetch(...)` (lines 98, 174)
AwaitingResponse == [done |-> FALSE, fetches |-> 1, jsonRead |-> FALSE, result |-> Pending]
\* at `await response.json()` (lines 126, 192)
AwaitingBody == [done |-> FALSE, fetches |-> 1, jsonRead |-> TRUE, result |-> Pending]

\* from the response to the next await or the throw (lines 122-126, 188-192)
OnResponse(in) ==
    IF ~ResponseOk(in.status) THEN Exchange(1, FALSE, HttpError(in.status, in.statusText))
    ELSE AwaitingBody

\* from the parsed body to the return or the throw (lines 127-128, 193-293)
OnBody(in) ==
    Exchange(1, TRUE, IF in.fn = "image" THEN generateImage(in.body) ELSE TextOf(in.body))

\* response.statusText is whatever the response carries, an input of its own: a
\* reason phrase, or "" (HTTP/2 and HTTP/3 carry none)
StatusTextPool == {""} \cup {ReasonPhrase[n] : n \in StatusPool}

HttpInputs ==
    { [fn |-> "image", status |-> st, statusText |-> tx, body |-> b] :
        st \in StatusPool, tx \in StatusTextPool, b \in ImageBodyPool }
    \cup { [fn |-> "text", status |-> st, statusText |-> tx, body |-> b] :
        st \in StatusPool, tx \in StatusTextPool, b \in TextBodyPool }

TransportIdle ==
    /\ httpIn = [fn |-> "image", status |-> 200, statusText |-> "OK",
                 body |-> [images |-> NoImages, msgImages |-> NoImages, content |-> NoContent]]
    /\ httpOut = NotCalled

(***************************************************************************)
(* withTimeout and generateSingleImageWithRetry                            *)
(* (src/components/ImageGenerator.tsx, lines 27-40 and 131-153).           *)
(*                                                                         *)
(* JavaScript runs each task to completion: when the request settles or a  *)
(* timer fires, the promise reactions that follow (the finally of          *)
(* withTimeout, the catch of the retry loop, the caller's continuation)    *)
(* run as microtasks before any other timer or event is handled.  One      *)
(* action of the model is therefore one task together with its microtasks, *)
(* up to the next await of a timer or of the network.                      *)
(*                                                                         *)
(* The state of one call of the wrapper:                                   *)
(*   st       "calling"   awaiting withTimeout(generateSingleImage(..))    *)
(*            "sleeping"  awaiting sleep(backoff)                          *)
(*            "returned" / "thrown"  the call has settled                  *)
(*   attempt  the loop variable                                            *)
(*   timer    the timer of the current withTimeout:                        *)
(*            "pending" set and not yet fired or cleared, "fired",         *)
(*            "cleared", "none" before the first attempt                   *)
(*   err      the error the call threw ("api": the last attempt rejected,  *)
(*            "timeout": its deadline expired), "none" while not thrown    *)
(*   calls, fails, sleeps   history: attempts started, attempts failed,    *)
(*            backoffs slept                                               *)
(***************************************************************************)
\* the jitter is Math.floor(Math.random() * 200) (line 146)
JitterRange == 200
\* every value of the jitter
Jitter == 0..(JitterRange - 1)
\* the errors an attempt fails with: the image fetch (line 100), the request or
\* the parsing of its response rejected ("api"), or the deadline expired first
\* ("timeout", line 34)
AttemptErrors == {"api", "timeout"}

\* first-pass and manual policy (lines 189, 269), retry policy (lines 220, 312)
FirstMaxRetries == 3
FirstBaseDelayMs == 800
RetryMaxRetries == 2
RetryBaseDelayMs == 1200

IdleW ==
    [st |-> "idle", attempt |-> 0, maxRetries |-> 0, baseDelayMs |-> 0, timer |-> "none",
     err |-> "none", calls |-> 0, fails |-> 0, sleeps |-> 0]

\* the finally of withTimeout, with the clearTimeout left out
clearTimeoutOmitted(timer) == timer
\* clearTimeout(timer) (line 38): a pending timer is cancelled, a fired one is left
clearTimeout(timer) == IF timer = "pending" THEN "cleared" ELSE timer

\* withTimeout up to its await (lines 29-36): the timer is set and the race awaited
withTimeoutStart(w) == [w EXCEPT !.st = "calling", !.timer = "pending", !.calls = @ + 1]

\* withTimeout from the settling of the race (lines 31-39).  how = "timeout": the
\* timer fired first and rejected the race; otherwise the operation settled first.
withTimeoutSettle(w, how) ==
    [w EXCEPT !.timer = clearTimeout(IF how = "timeout" THEN "fired" ELSE @)]

\* `attempt >= maxRetries`, mutated: `>`
ExhaustedOffByOne(attempt, maxRetries) == attempt > maxRetries
\* `attempt >= maxRetries` (line 143)
Exhausted(attempt, maxRetries) == attempt >= maxRetries

RECURSIVE Pow2(_)
Pow2(n) == IF n = 0 THEN 1 ELSE 2 * Pow2(n - 1)

\* `baseDelayMs * Math.pow(2, attempt) + Math.floor(Math.random() * 200)` (line 146)
Backoff(baseDelayMs, attempt, jitter) == baseDelayMs * Pow2(attempt) + jitter

\* generateSingleImageWithRetry up to its first await (lines 137-141)
RetryStart(maxRetries, baseDelayMs) ==
    withTimeoutStart([IdleW EXCEPT !.maxRetries = maxRetries, !.baseDelayMs = baseDelayMs])

\* the attempt resolved: `return await withTimeout(...)` (line 141)
RetryOnResolve(w) == [withTimeoutSettle(w, "ok") EXCEPT !.st = "returned"]

\* the attempt failed with error e: the catch block (lines 142-147), which throws e
\* or sleeps Backoff(baseDelayMs, attempt, jitter)
RetryOnFailure(w, e) ==
    LET w1 == [withTimeoutSettle(w, e) EXCEPT !.fails = @ + 1]
    IN  IF Exhausted(w.attempt, w.maxRetries)
        THEN [w1 EXCEPT !.st = "thrown", !.err = e]
        ELSE [w1 EXCEPT !.st = "sleeping", !.sleeps = @ + 1]

RetryOnWakeSameAttempt(w) == withTimeoutStart(w)
\* the backoff elapsed: `attempt += 1` and the next turn of the loop (lines 148, 138-141)
RetryOnWake(w) == withTimeoutStart([w EXCEPT !.attempt = @ + 1])

(***************************************************************************)
(* The ImageGenerator component (src/components/ImageGenerator.tsx).       *)
(*                                                                         *)
(* Storyboards are identified by their position 1..NumStoryboards in the   *)
(* storyboards prop (sceneNumber = id).  A GeneratedImage is               *)
(* [storyboardId, op]: op, the ordinal of the handler invocation that      *)
(* produced it, stands for the timestamp in its id and generatedAt.        *)
(*                                                                         *)
(* A handler is an async function: it reads the state and props captured   *)
(* by the closure it was created in, not the current ones.                 *)
(*   generateAllImages: useCallback deps (line 257) are [storyboards,      *)
(*     characterImage, generateSingleImage, onImagesGenerated, apiKey], so *)
(*     its failedIds is the one of the render in which one of these last   *)
(*     changed: the variable gaiFailedIds.                                 *)
(*   regenerateImage, retryAllFailed: deps (lines 293, 333) include        *)
(*     generatedImages and failedIds, so they capture the values of the    *)
(*     render in which the control was clicked.                            *)
(* State setters take effect in the render that follows the task; no       *)
(* handler reads state after its start except through its closure, so a    *)
(* setter is modelled as an assignment within the task's action.           *)
(*                                                                         *)
(* The parent StoryApp renders ImageGenerator only while its currentStep is *)
(* "generation" (src/StoryApp.tsx, line 343).  onImagesGenerated is its    *)
(* handleImagesGenerated (lines 124-131): it keeps the list it is handed   *)
(* (emitted) and sets currentStep to "result", which unmounts the          *)
(* component.  A handler that is running then runs on: its callbacks still *)
(* reach the parent, its setters reach nothing.  The state variables keep  *)
(* the values the setters gave them while the component was mounted; a new *)
(* mount starts from the initial state of useState.                        *)
(***************************************************************************)
\* number of storyboards in the list StoryboardGenerator hands over
NumStoryboards == 3
\* number of lists of storyboards handed over in one run: a scene number then
\* names one storyboard
MaxStoryboardSets == 1
\* number of clicks on the navigation controls of StoryApp and on the controls of
\* the pages before "generation", up to the hand-over of the storyboards
MaxSetupClicks == 4
\* number of handler invocations in one run of the model, the clicks on the
\* navigation controls of StoryApp after the hand-over of the storyboards included
MaxOps == 2
\* number of handler frames; those above MaxOps are used only by SpecReentry and
\* SpecManual
MaxFrames == 4
\* number of handler invocations in one run of SpecReentry
MaxReentryOps == 3
\* number of manual regenerations in one run of SpecReentry
MaxManual == 1

\* the API key: null, undefined and '' alike fail every test of it (`!apiKey` at
\* lines 43, 67, 158, 261, 298; `key &&`, `if (key)` in src/StoryApp.tsx)
NoKey == ""
HasKey(key) == key # NoKey
\* the key found at start-up in localStorage or the environment
\* (src/StoryApp.tsx, lines 33-46)
StoredKey == "sk-stored-key"
\* what the user types into window.prompt (src/StoryApp.tsx, line 205); a cancelled
\* prompt gives null, which fails the test of line 206 as "" does
PromptInputs == {"", "  ", Nbsp, " sk-user-key\n"}

\* the character image: none, the object URL of the uploaded file
\* (src/components/ImageUpload.tsx, line 31), or what the bootstrap request returned
NoCharacter == ""
UploadedImage == "blob:https://app.example/1f0c"
\* URL.createObjectURL(file) for the n-th file accepted in one run: a new object URL
\* each time, the first of them UploadedImage
createObjectURL(n) ==
    IF n = 1 THEN UploadedImage
    ELSE "blob:https://app.example/" \o Rep(SubSeq("0123456789abcdef", n + 1, n + 1), 4)
BootstrapImages == {DataUri, HttpsUrl}

\* the steps of StoryApp (src/StoryApp.tsx, line 135)
StepOrder == <<"upload", "story", "storyboard", "generation", "result">>
StepIndex(s) == CHOOSE n \in 1..Len(StepOrder) : StepOrder[n] = s

Storyboards == 1..NumStoryboards

NullCG == [t |-> "null", id |-> 0]
Preparing == [t |-> "preparing", id |-> 0]
RetryCG == [t |-> "retry", id |-> 0]
SceneCG(sb) == [t |-> "scene", id |-> sb]

NoError == [t |-> "null", n |-> 0, msg |-> "none"]
\* '请先设置 API Key' (lines 159, 262, 299)
NoApiKeyError == [t |-> "noApiKey", n |-> 0, msg |-> "none"]
\* `场景 ${sceneNumber} 生成失败: ${message}` (line 207)
SceneFailedError(sb, e) == [t |-> "sceneFailed", n |-> sb, msg |-> e]
\* `有 ${remain} 个场景在重试后仍失败...` (line 246)
RemainError(remain) == [t |-> "remain", n |-> remain, msg |-> "none"]
\* the message of whatever reached the outer catch of generateAllImages (line 254)
BatchFatalError(e) == [t |-> "batchFatal", n |-> 0, msg |-> e]
\* `重新生成失败: ${message}` (line 286)
RegenFailedError(e) == [t |-> "regenFailed", n |-> 0, msg |-> e]

\* ((i + 1) / storyboards.length) * 100 as the fraction <<numerator, denominator>>;
\* i is the zero-based loop index (line 192)
Progress(i, len) == <<(i + 1) * 100, len>>
ZeroProgress == <<0, 1>>

Img(sb, op) == [storyboardId |-> sb, op |-> op]

IdleProc ==
    [kind |-> "none", pc |-> "idle", phase |-> "none", fIds |-> {}, gImgs |-> <<>>,
     i |-> 0, sb |-> 0, list |-> <<>>, failedSbs |-> <<>>, targets |-> <<>>,
     nextFailed |-> {}, noop |-> FALSE, emits |-> 0, w |-> IdleW,
     cImg |-> NoCharacter, boot |-> "none", bootReqs |-> 0, inv |-> <<>>, during |-> {},
     paceMs |-> 0, stage |-> "none", live |-> FALSE]

\* the component state and props as one record, for the handlers to transform
Cur ==
    [generatedImages |-> generatedImages, currentGenerating |-> currentGenerating,
     progress |-> progress, error |-> error, referenceReady |-> referenceReady,
     failedIds |-> failedIds, apiKey |-> apiKey, characterImage |-> characterImage,
     storyboards |-> storyboards, gaiFailedIds |-> gaiFailedIds, emitted |-> emitted,
     step |-> step]

\* `identity` of ensureReferenceImage is not empty (lines 48, 49)
hasIdentity == BootstrapIdentity(characterTextPrompt, story) # ""

\* the state of the component (useState, lines 20-25)
localVars == <<generatedImages, currentGenerating, progress, error, referenceReady,
               failedIds>>

\* the setters of the component
SetState(s) ==
    /\ generatedImages' = s.generatedImages
    /\ currentGenerating' = s.currentGenerating
    /\ progress' = s.progress
    /\ error' = s.error
    /\ referenceReady' = s.referenceReady
    /\ failedIds' = s.failedIds

Commit(s) ==
    /\ SetState(s)
    /\ apiKey' = s.apiKey
    /\ characterImage' = s.characterImage
    /\ gaiFailedIds' = s.gaiFailedIds
    /\ emitted' = s.emitted
    /\ step' = s.step

\* a handler's effect: the component state and its own frame afterwards
Eff(s, p) == [s |-> s, p |-> p]

\* the pacing sleeps: after the bootstrap (line 178), after a first-pass success
\* (line 202), after a retry-pass turn (line 236), after a retryAllFailed turn (line 327)
BootPaceMs == 800
FirstPaceMs == 1000
RetryPaceMs == 800
RetryAllPaceMs == 800

\* `await sleep(ms)` between two turns of a loop
Pace(p, ms) == [p EXCEPT !.pc = "pace", !.paceMs = ms]

\* history: one wrapped invocation of the handler, the loop it was made in and how
\* it ended ("pending", "ok", "failed")
Invocation(phase, sb, maxRetries, baseDelayMs) ==
    [phase |-> phase, sb |-> sb, maxRetries |-> maxRetries, baseDelayMs |-> baseDelayMs,
     out |-> "pending"]

Ended(p, out) == [p EXCEPT !.inv[Len(p.inv)].out = out]

\* what generateSingleImage awaits first (lines 99-115): the fetch of the character
\* image when there is one and it is not a data URL (src/utils/openrouter.ts, lines
\* 300-310), else the generation request.  The fetch of an object URL that has been
\* revoked can only fail ("deadImage").
FirstAwait(cImg) ==
    IF cImg # NoCharacter /\ ~StartsWith(cImg, "data:")
    THEN IF cImg \in revoked THEN "deadImage" ELSE "image"
    ELSE "request"

\* `generateSingleImageWithRetry(storyboard, maxRetries, baseDelayMs)` is called and
\* awaited by the handler whose frame is p
CallWithRetry(p, sb, maxRetries, baseDelayMs) ==
    [p EXCEPT !.pc = "call", !.sb = sb, !.w = RetryStart(maxRetries, baseDelayMs),
              !.paceMs = 0, !.stage = FirstAwait(p.cImg),
              !.inv = Append(@, Invocation(p.phase, sb, maxRetries, baseDelayMs))]

\* `generatedImages.findIndex(img => img.storyboardId === id)` (lines 270, 313);
\* 0 stands for -1
FindIndex(list, sb) ==
    IF \E x \in 1..Len(list) : list[x].storyboardId = sb
    THEN CHOOSE x \in 1..Len(list) :
            /\ list[x].storyboardId = sb
            /\ \A y \in 1..(x - 1) : list[y].storyboardId # sb
    ELSE 0

UpsertAppend(list, img) == Append(list, img)
\* replace at existingIdx or push (lines 270-276, 313-318)
Upsert(list, img) ==
    LET existingIdx == FindIndex(list, img.storyboardId)
    IN  IF existingIdx >= 1 THEN [list EXCEPT ![existingIdx] = img] ELSE Append(list, img)

\* `if (failedIds.has(id)) { next = new Set(failedIds); next.delete(id);
\*  setFailedIds(next) }` with the closure's failedIds (lines 194-198, 224-228, 279-283)
RemoveFromFailed(s, fIds, sb) ==
    IF sb \in fIds THEN [s EXCEPT !.failedIds = fIds \ {sb}] ELSE s

\* `next = new Set(failedIds); next.add(id); setFailedIds(next)` with the closure's
\* failedIds (lines 209-211, 231-233, 287-289)
AddToFailed(s, fIds, sb) == [s EXCEPT !.failedIds = fIds \cup {sb}]

\* `storyboards.filter(sb => failedIds.has(sb.id))` (line 305), in array order
RECURSIVE FilterFailed(_, _)
FilterFailed(from, fIds) ==
    IF from > NumStoryboards THEN <<>>
    ELSE (IF from \in fIds THEN <<from>> ELSE <<>>) \o FilterFailed(from + 1, fIds)

\* lines 252-256: the outer catch of generateAllImages.  Every await inside the outer
\* try sits in a try/catch of its own, so no step of the handler leads here.
BatchFatal(s, p, e) ==
    Eff([s EXCEPT !.error = BatchFatalError(e), !.currentGenerating = NullCG],
        [p EXCEPT !.pc = "fatal", !.w = IdleW])

(***************************************************************************)
(* generateAllImages (lines 156-257).  Loop indices i, j are zero-based as *)
(* in the code; storyboards[i] is the storyboard i + 1.                    *)
(***************************************************************************)
BatchFinishCleared(s, p) ==
    Eff([s EXCEPT !.currentGenerating = NullCG, !.emitted = p.list, !.error = NoError],
        [p EXCEPT !.pc = "done", !.emits = @ + 1, !.w = IdleW])
\* lines 241-249: the end of the batch
BatchFinish(s, p) ==
    LET succeeded == Len(p.list)
    IN  Eff([s EXCEPT !.currentGenerating = NullCG,
                      !.emitted = p.list,
                      !.error = IF succeeded < NumStoryboards
                                THEN RemainError(NumStoryboards - succeeded)
                                ELSE NoError],
            [p EXCEPT !.pc = "done", !.emits = @ + 1, !.w = IdleW])

\* lines 217-220: turn j of the retry loop up to its await
BatchRetryTurn(s, p, j) ==
    IF j < Len(p.failedSbs)
    THEN Eff(s, CallWithRetry([p EXCEPT !.phase = "retry", !.i = j], p.failedSbs[j + 1],
                              RetryMaxRetries, RetryBaseDelayMs))
    ELSE BatchFinish(s, p)

HasFailuresNever(failedSbs) == FALSE
\* `failedStoryboards.length > 0` (line 216)
HasFailures(failedSbs) == Len(failedSbs) > 0

\* lines 214-216 and 241: after the first loop
BatchAfterFirstPass(s, p) ==
    IF HasFailures(p.failedSbs)
    THEN BatchRetryTurn([s EXCEPT !.currentGenerating = RetryCG],
                        [p EXCEPT !.phase = "retry"], 0)
    ELSE BatchFinish(s, p)

\* lines 184-189: turn i of the first loop up to its await
BatchFirstTurn(s, p, i) ==
    IF i < NumStoryboards
    THEN Eff([s EXCEPT !.currentGenerating = SceneCG(i + 1)],
             CallWithRetry([p EXCEPT !.phase = "first", !.i = i], i + 1,
                           FirstMaxRetries, FirstBaseDelayMs))
    ELSE BatchAfterFirstPass(s, p)

\* lines 189-203: the first-pass call returned an image
BatchFirstSuccess(s, p, op) ==
    LET list == Append(p.list, Img(p.sb, op))
        s1 == [s EXCEPT !.generatedImages = list,
                        !.progress = Progress(p.i, NumStoryboards)]
        s2 == RemoveFromFailed(s1, p.fIds, p.sb)
        p1 == [p EXCEPT !.list = list, !.w = IdleW]
    IN  IF p.i < NumStoryboards - 1
        THEN Eff(s2, Pace(p1, FirstPaceMs))
        ELSE BatchFirstTurn(s2, p1, p.i + 1)

BatchFirstFailureFatal(s, p, e) == BatchFatal(s, p, e)
\* lines 204-212: the first-pass call threw e; the loop goes on without a delay
BatchFirstFailure(s, p, e) ==
    LET s1 == AddToFailed([s EXCEPT !.error = SceneFailedError(p.sb, e)], p.fIds, p.sb)
        p1 == [p EXCEPT !.failedSbs = Append(@, p.sb), !.w = IdleW]
    IN  BatchFirstTurn(s1, p1, p.i + 1)

\* lines 235-237 and 241: the end of turn j of the retry loop
BatchRetryTurnEnd(s, p) ==
    IF p.i < Len(p.failedSbs) - 1
    THEN Eff(s, Pace(p, RetryPaceMs))
    ELSE BatchFinish(s, p)

BatchRetrySuccessFront(s, p, op) ==
    LET list == <<Img(p.sb, op)>> \o p.list
        s1 == RemoveFromFailed([s EXCEPT !.generatedImages = list], p.fIds, p.sb)
    IN  BatchRetryTurnEnd(s1, [p EXCEPT !.list = list, !.w = IdleW])
\* lines 220-228: the retry-pass call returned an image
BatchRetrySuccess(s, p, op) ==
    LET list == Append(p.list, Img(p.sb, op))
        s1 == RemoveFromFailed([s EXCEPT !.generatedImages = list], p.fIds, p.sb)
    IN  BatchRetryTurnEnd(s1, [p EXCEPT !.list = list, !.w = IdleW])

\* lines 229-234: the retry-pass call threw
BatchRetryFailure(s, p, e) ==
    BatchRetryTurnEnd(AddToFailed(s, p.fIds, p.sb), [p EXCEPT !.w = IdleW])

\* lines 96-108: what the requests of the handler whose frame is p carry.  The
\* generateSingleImage the handler calls is the one of the render it was created in,
\* so the character image it reads is the one of that render.
RequestMode(p) == IF p.cImg # NoCharacter THEN "inline" ELSE "hint"

\* ensureReferenceImage up to its await (lines 42-55), called with no character
\* image: TRUE when the generateImage request is issued, FALSE when it returns null
\* at once (no identity text)
BootstrapIssued(s, identity) == HasKey(s.apiKey) /\ identity

\* generateAllImages up to its first await (lines 156-189).  The handler is the
\* invocation number op; identity tells whether characterPrompt or story is non-blank.
GenerateAllImages(s, op, identity) ==
    IF s.storyboards = 0 THEN Eff(s, [IdleProc EXCEPT !.kind = "batch", !.pc = "done",
                                                       !.noop = TRUE])
    ELSE IF ~HasKey(s.apiKey)
    THEN Eff([s EXCEPT !.error = NoApiKeyError],
             [IdleProc EXCEPT !.kind = "batch", !.pc = "done", !.noop = TRUE])
    ELSE LET s1 == [s EXCEPT !.error = NoError, !.progress = ZeroProgress,
                             !.generatedImages = <<>>, !.currentGenerating = Preparing]
             p1 == [IdleProc EXCEPT !.kind = "batch", !.phase = "first",
                                    !.fIds = s.gaiFailedIds, !.cImg = s.characterImage]
         IN  IF s.characterImage # NoCharacter THEN BatchFirstTurn(s1, p1, 0)
             ELSE IF BootstrapIssued(s, identity)
             THEN Eff(s1, [p1 EXCEPT !.pc = "bootstrap", !.boot = "issued",
                                   !.bootReqs = @ + 1])
             ELSE BatchFirstTurn(s1, [p1 EXCEPT !.boot = "noIdentity"], 0)

\* ensureReferenceImage resolved with imageUrl (lines 55-58) and `if (referenceUrl)
\* await sleep(800)` (line 178).  onReferenceReady hands the image to the parent, which
\* sets the characterImage prop (src/StoryApp.tsx line 349); when that changes the
\* prop, the render that follows re-creates generateAllImages (deps, line 257), whose
\* closure then holds the current failedIds.
BootstrapResolved(s, p, imageUrl) ==
    Eff([s EXCEPT !.referenceReady = TRUE, !.characterImage = imageUrl,
                  !.gaiFailedIds = IF imageUrl # s.characterImage THEN s.failedIds
                                   ELSE s.gaiFailedIds],
        [p EXCEPT !.pc = "bootSleep", !.boot = "ok", !.paceMs = BootPaceMs])

BootstrapRejectedFatal(s, p) == BatchFatal(s, [p EXCEPT !.boot = "failed"], "api")

\* ensureReferenceImage caught an error and returned null (lines 59-62, 177-178)
BootstrapRejected(s, p) == BatchFirstTurn(s, [p EXCEPT !.boot = "failed"], 0)

\* a pacing sleep of the batch elapsed (lines 178, 202, 236)
BatchOnWake(s, p) ==
    IF p.pc = "bootSleep" THEN BatchFirstTurn(s, p, 0)
    ELSE IF p.phase = "first" THEN BatchFirstTurn(s, p, p.i + 1)
    ELSE BatchRetryTurn(s, p, p.i + 1)

(***************************************************************************)
(* regenerateImage (lines 260-293)                                         *)
(***************************************************************************)
\* regenerateImage up to its await (lines 260-269)
RegenerateImage(s, sb) ==
    IF ~HasKey(s.apiKey)
    THEN Eff([s EXCEPT !.error = NoApiKeyError],
             [IdleProc EXCEPT !.kind = "regen", !.pc = "done", !.sb = sb, !.noop = TRUE])
    ELSE Eff([s EXCEPT !.currentGenerating = SceneCG(sb), !.error = NoError],
             CallWithRetry([IdleProc EXCEPT !.kind = "regen", !.fIds = s.failedIds,
                                            !.gImgs = s.generatedImages,
                                            !.cImg = s.characterImage],
                           sb, FirstMaxRetries, FirstBaseDelayMs))

\* lines 269-283 and 290-292: the call returned an image
RegenSuccess(s, p, op) ==
    LET updatedImages == Upsert(p.gImgs, Img(p.sb, op))
        s1 == [s EXCEPT !.generatedImages = updatedImages, !.emitted = updatedImages]
        s2 == RemoveFromFailed(s1, p.fIds, p.sb)
    IN  Eff([s2 EXCEPT !.currentGenerating = NullCG],
            [p EXCEPT !.pc = "done", !.list = updatedImages, !.emits = @ + 1, !.w = IdleW])

\* lines 284-292: the call threw e
RegenFailure(s, p, e) ==
    LET s1 == AddToFailed([s EXCEPT !.error = RegenFailedError(e)], p.fIds, p.sb)
    IN  Eff([s1 EXCEPT !.currentGenerating = NullCG], [p EXCEPT !.pc = "done", !.w = IdleW])

(***************************************************************************)
(* retryAllFailed (lines 296-333)                                          *)
(***************************************************************************)
\* the two early returns, mutated: the test of the empty failed set is left out
RetryAllEntryNoEmptyTest(fIds, key) ==
    IF ~HasKey(key) THEN "noApiKey" ELSE "run"
\* the two early returns (lines 297-301)
RetryAllEntry(fIds, key) ==
    IF Cardinality(fIds) = 0 THEN "return" ELSE IF ~HasKey(key) THEN "noApiKey" ELSE "run"

\* retryAllFailed up to its await (lines 296-312)
RetryAllFailed(s) ==
    LET entry == RetryAllEntry(s.failedIds, s.apiKey)
        p0 == [IdleProc EXCEPT !.kind = "retryAll", !.fIds = s.failedIds,
                               !.gImgs = s.generatedImages, !.cImg = s.characterImage]
    IN  IF entry = "return" THEN Eff(s, [p0 EXCEPT !.pc = "done", !.noop = TRUE])
        ELSE IF entry = "noApiKey"
        THEN Eff([s EXCEPT !.error = NoApiKeyError], [p0 EXCEPT !.pc = "done", !.noop = TRUE])
        ELSE LET targets == FilterFailed(1, s.failedIds)
                 p1 == [p0 EXCEPT !.targets = targets, !.list = s.generatedImages,
                                  !.nextFailed = s.failedIds, !.i = 0]
                 s1 == [s EXCEPT !.currentGenerating = RetryCG, !.error = NoError]
             IN  IF Len(targets) > 0
                 THEN Eff(s1, CallWithRetry(p1, targets[1], RetryMaxRetries, RetryBaseDelayMs))
                 ELSE Eff([s1 EXCEPT !.currentGenerating = NullCG], [p1 EXCEPT !.pc = "done"])

\* lines 326-332: the end of turn i
RetryAllTurnEnd(s, p) ==
    IF p.i < Len(p.targets) - 1
    THEN Eff(s, Pace(p, RetryAllPaceMs))
    ELSE Eff([s EXCEPT !.failedIds = p.nextFailed, !.currentGenerating = NullCG],
             [p EXCEPT !.pc = "done"])

\* lines 312-321: the call returned an image
RetryAllSuccess(s, p, op) ==
    LET updatedImages == Upsert(p.list, Img(p.sb, op))
    IN  RetryAllTurnEnd([s EXCEPT !.generatedImages = updatedImages,
                                  !.emitted = updatedImages],
                        [p EXCEPT !.list = updatedImages, !.nextFailed = @ \ {p.sb},
                                  !.emits = @ + 1, !.w = IdleW])

\* lines 322-325: the call threw
RetryAllFailure(s, p, e) ==
    RetryAllTurnEnd(s, [p EXCEPT !.nextFailed = @ \cup {p.sb}, !.w = IdleW])

\* the pacing sleep elapsed (line 327): the next turn up to its await
RetryAllOnWake(s, p) ==
    Eff(s, CallWithRetry([p EXCEPT !.i = @ + 1], p.targets[p.i + 2],
                         RetryMaxRetries, RetryBaseDelayMs))

(***************************************************************************)
(* The continuation of the handler whose awaited call settled              *)
(***************************************************************************)
OnReturned(s, p0, op) ==
    LET p == Ended(p0, "ok")
    IN  CASE p.kind = "batch" /\ p.phase = "first" -> BatchFirstSuccess(s, p, op)
          [] p.kind = "batch" /\ p.phase = "retry" -> BatchRetrySuccess(s, p, op)
          [] p.kind = "regen" -> RegenSuccess(s, p, op)
          [] p.kind = "retryAll" -> RetryAllSuccess(s, p, op)

OnThrown(s, p0, e) ==
    LET p == Ended(p0, "failed")
    IN  CASE p.kind = "batch" /\ p.phase = "first" -> BatchFirstFailure(s, p, e)
          [] p.kind = "batch" /\ p.phase = "retry" -> BatchRetryFailure(s, p, e)
          [] p.kind = "regen" -> RegenFailure(s, p, e)
          [] p.kind = "retryAll" -> RetryAllFailure(s, p, e)

OnWake(s, p) ==
    IF p.kind = "batch" THEN BatchOnWake(s, p) ELSE RetryAllOnWake(s, p)

(***************************************************************************)
(* The controls that start the handlers (the JSX, lines 367-486)           *)
(***************************************************************************)
\* the start button is rendered and enabled (lines 367-377; isLoading is never set)
CanGenerateAll(s) ==
    /\ s.step = "generation"
    /\ Len(s.generatedImages) = 0
    /\ s.currentGenerating = NullCG
    /\ s.storyboards # 0
    /\ HasKey(s.apiKey)

\* the retry-all button is rendered (lines 385-393)
CanRetryAllFailed(s) ==
    /\ s.step = "generation"
    /\ Cardinality(s.failedIds) > 0 /\ s.currentGenerating = NullCG

\* a card's regenerate control is rendered and enabled (lines 419, 428-485): it is
\* disabled or absent exactly while currentGenerating is the card's storyboard
CanRegenerate(s, sb) ==
    s.step = "generation" /\ s.storyboards # 0 /\ s.currentGenerating # SceneCG(sb)

(***************************************************************************)
(* Actions of the component                                                *)
(***************************************************************************)
Ops == 1..MaxFrames

NoneLatest == [sb \in Storyboards |-> 0]

\* the step took frame p to frame q by sending a request: a first attempt (line 141
\* reached from line 137) or a further one (line 141 reached from line 148)
Issued(p, q) ==
    /\ q.pc = "call" /\ q.w.st = "calling"
    /\ q.w.calls # p.w.calls \/ Len(q.inv) # Len(p.inv)

NotCounting == [on |-> FALSE, n |-> [sb \in Storyboards |-> 0]]
CountingFromZero == [on |-> TRUE, n |-> [sb \in Storyboards |-> 0]]

Tally(p, q) ==
    IF attempts.on /\ Issued(p, q) THEN [attempts EXCEPT !.n[q.sb] = @ + 1] ELSE attempts

\* ImageGenerator is rendered (src/StoryApp.tsx, line 343)
Mounted == step = "generation"

\* the component is unmounted: the handlers in progress run on without it
Detached(frames) == [k \in Ops |-> [frames[k] EXCEPT !.live = FALSE]]

\* One task of invocation k, with effect r.  The setters take effect only while the
\* instance that started the invocation is mounted; the callbacks reach the parent
\* always: onReferenceReady sets the characterImage prop (src/StoryApp.tsx, line 349),
\* after which a mounted instance re-creates generateAllImages if the prop has changed
\* (deps, line 257), and
\* onImagesGenerated keeps the list and sets currentStep to "result"
\* (src/StoryApp.tsx, lines 124-131), which unmounts the component.
Apply(k, r) ==
    LET called == r.p.emits # procs[k].emits
        referenceSet == procs[k].pc = "bootstrap" /\ r.p.boot = "ok"
        \* a handler that has returned is no longer told from one that was detached
        ended == IF r.p.pc \in {"done", "fatal"} THEN [r.p EXCEPT !.live = FALSE] ELSE r.p
        frames == [procs EXCEPT ![k] = ended]
    IN  /\ IF r.p.live
           THEN SetState(r.s) /\ gaiFailedIds' = r.s.gaiFailedIds
           ELSE /\ UNCHANGED localVars
                /\ gaiFailedIds' = IF /\ Mounted /\ referenceSet
                                      /\ r.s.characterImage # characterImage
                                   THEN failedIds
                                   ELSE gaiFailedIds
        /\ characterImage' = r.s.characterImage
        /\ emitted' = r.s.emitted
        /\ appGeneratedImages' = IF called THEN r.s.emitted ELSE appGeneratedImages
        /\ step' = IF called THEN "result" ELSE step
        /\ procs' = IF called THEN Detached(frames) ELSE frames
        /\ attempts' = Tally(procs[k], r.p)
        /\ UNCHANGED apiKey

\* the handlers still running
Running == {k \in Ops : procs[k].pc \notin {"idle", "done", "fatal"}}

\* a handler invoked from a control of the mounted component; history: the handlers
\* that were running when this one was invoked
Started(r) == [r EXCEPT !.p.during = Running, !.p.live = TRUE]

\* a click on the start button, as one of at most limit handler invocations
GenerateAllClicked(limit) ==
    /\ nops + clicks < limit
    /\ CanGenerateAll(Cur)
    /\ nops' = nops + 1
    /\ Apply(nops + 1, Started(GenerateAllImages(Cur, nops + 1, hasIdentity)))
    \* setGeneratedImages([]) (line 165) discards the results so far
    /\ latest' = IF procs'[nops + 1].noop THEN latest ELSE NoneLatest
    /\ UNCHANGED <<parentVars, givenUp, pureVars, retryVars>>

ClickGenerateAll == GenerateAllClicked(MaxOps)

\* a click on the regenerate control of storyboard sb, as one of at most limit
\* handler invocations
RegenerateClicked(limit, sb) ==
    /\ nops + clicks < limit
    /\ CanRegenerate(Cur, sb)
    /\ nops' = nops + 1
    /\ Apply(nops + 1, Started(RegenerateImage(Cur, sb)))
    /\ UNCHANGED <<parentVars, auxVars, pureVars, retryVars>>

ClickRegenerate(sb) == RegenerateClicked(MaxOps, sb)

\* retryAllFailed is invoked: by a click on its button, or directly while the
\* failed set is empty (the button is not rendered then; the handler returns at once),
\* as one of at most limit handler invocations
RetryAllFailedClicked(limit) ==
    /\ nops + clicks < limit
    /\ CanRetryAllFailed(Cur) \/ (Mounted /\ Cardinality(failedIds) = 0)
    /\ nops' = nops + 1
    /\ Apply(nops + 1, Started(RetryAllFailed(Cur)))
    /\ UNCHANGED <<parentVars, auxVars, pureVars, retryVars>>

InvokeRetryAllFailed == RetryAllFailedClicked(MaxOps)

\* setUserApiKey (src/StoryApp.tsx, lines 49-58), localStorage aside: the key of the
\* parent's state afterwards; null gives no key
setUserApiKey(key) == key

\* a click on a navigation control of StoryApp or on a control of a page before
\* "generation" that changes the state of StoryApp: one of at most MaxSetupClicks
\* before the storyboards are handed over; after, the clicks and the handler
\* invocations are at most MaxOps together
NavigationClick ==
    /\ IF sbSets = 0 THEN clicks < MaxSetupClicks ELSE nops + clicks < MaxOps
    /\ clicks' = clicks + 1

\* a click that leaves the state of StoryApp as it is
IdleClick == UNCHANGED clicks

\* a click on the API key button of the header and an answer to its prompt
\* (src/StoryApp.tsx, lines 203-214; the button of the banner, lines 280-284, does the
\* same): a blank answer changes nothing, any other is trimmed and set.  The button
\* "use the environment variable" (lines 289-301) is rendered only while no key is set
\* and then finds none in the environment, for a key there would have been set at
\* start-up (lines 41-45).  When the apiKey prop changes, a mounted ImageGenerator
\* re-creates generateAllImages with the current failedIds (deps, line 257); when the
\* same key is set again, nothing is re-created.
ChangeApiKey ==
    \E input \in PromptInputs :
        /\ apiKey' = IF Trim(input) # "" THEN setUserApiKey(Trim(input)) ELSE apiKey
        /\ gaiFailedIds' = IF Mounted /\ apiKey' # apiKey THEN failedIds ELSE gaiFailedIds
        /\ UNCHANGED <<localVars, characterImage, parentVars, appGeneratedImages, step,
                       emitted, procs, nops, attempts, auxVars, pureVars, retryVars>>

\* handleGoBack (src/StoryApp.tsx, lines 133-144): the step before currentStep
handleGoBack(currentStep) ==
    LET currentIndex == StepIndex(currentStep)
    IN  IF currentIndex > 1 THEN StepOrder[currentIndex - 1] ELSE currentStep

\* ImageGenerator is mounted: its state is the initial state of useState
\* (lines 20-25), its generateAllImages the one of its first render
MountFresh ==
    /\ generatedImages' = <<>>
    /\ currentGenerating' = NullCG
    /\ progress' = ZeroProgress
    /\ error' = NoError
    /\ referenceReady' = (characterImage # NoCharacter)
    /\ failedIds' = {}
    /\ gaiFailedIds' = {}

\* currentStep is set to `to` (src/StoryApp.tsx, lines 306-353): a step to
\* "generation" mounts ImageGenerator anew, a step away from it unmounts it, and the
\* handlers in progress run on
SetStep(to) ==
    /\ step' = to
    /\ IF to = "generation" /\ ~Mounted THEN MountFresh /\ UNCHANGED procs
       ELSE IF to # "generation" /\ Mounted
       THEN UNCHANGED <<localVars, gaiFailedIds>> /\ procs' = Detached(procs)
       ELSE UNCHANGED <<localVars, gaiFailedIds, procs>>

\* what the navigation controls leave alone
keptByNavigation == <<apiKey, emitted, nops, attempts, auxVars, pureVars, retryVars>>

\* `10 * 1024 * 1024` (src/unnamed/part_002, line 34)
MaxFileSize == 10485760
\* the files the user selects or drops: an image, a file that is no image, an image
\* over the size limit
FilePool ==
    { [type |-> "image/png", size |-> 204800], [type |-> "text/plain", size |-> 204800],
      [type |-> "image/png", size |-> MaxFileSize + 1] }
\* the tests of handleFileSelect (src/unnamed/part_002, lines 28-37)
FileAccepted(file) == StartsWith(file.type, "image/") /\ ~(file.size > MaxFileSize)

\* a file is selected or dropped on the upload page: handleFileSelect
\* (src/unnamed/part_002, lines 27-41; src/components/ImageUpload.tsx, lines 20-33)
\* refuses it or hands its object URL to handleImageUpload (src/StoryApp.tsx,
\* lines 61-67); the URL of the image it replaces is not revoked
SelectFile ==
    /\ step = "upload"
    /\ \E file \in FilePool :
         IF FileAccepted(file)
         THEN /\ NavigationClick
              /\ LET url == createObjectURL(Cardinality(created) + 1)
                 IN  characterImage' = url /\ created' = created \cup {url}
         ELSE IdleClick /\ UNCHANGED <<characterImage, created>>
    /\ UNCHANGED <<localVars, gaiFailedIds, procs, step, story, characterTextPrompt,
                   storyboards, appGeneratedImages, sbSets, revoked, keptByNavigation>>

\* URL.revokeObjectURL(url): it revokes an object URL and ignores any other URL
Revoked(url) == revoked \cup ({url} \cap created)

\* the clear button of the preview: handleClear (src/unnamed/part_002, lines 78-87)
\* revokes the current image and hands null to handleImageUpload
ClearImage ==
    /\ step = "upload" /\ characterImage # NoCharacter
    /\ NavigationClick
    /\ revoked' = Revoked(characterImage)
    /\ characterImage' = NoCharacter
    /\ UNCHANGED <<localVars, gaiFailedIds, procs, step, story, characterTextPrompt,
                   storyboards, appGeneratedImages, sbSets, created, keptByNavigation>>

\* the continue button under the preview (src/unnamed/part_002, lines 188-196):
\* handleImageNext (src/StoryApp.tsx, lines 70-76)
ImageNext ==
    /\ step = "upload" /\ characterImage # NoCharacter
    /\ NavigationClick
    /\ SetStep("story")
    /\ UNCHANGED <<characterImage, story, characterTextPrompt, storyboards,
                   appGeneratedImages, sbSets, created, revoked, keptByNavigation>>

\* the skip button, rendered while there is no image (src/unnamed/part_002, lines
\* 230, 254-257): handleSkipCharacter (src/StoryApp.tsx, lines 79-85)
SkipCharacter ==
    /\ step = "upload" /\ characterImage = NoCharacter
    /\ NavigationClick
    /\ SetStep("story")
    /\ UNCHANGED <<characterImage, story, characterTextPrompt, storyboards,
                   appGeneratedImages, sbSets, created, revoked, keptByNavigation>>

\* what the user has typed into the description box of the upload page
DescriptionInputs == {"", " \t", "  Mia, a small red fox\r\n"}

\* the description button, rendered while there is no image (src/unnamed/part_002,
\* lines 230-252): handleGenerateCharacter (lines 90-102) returns on a blank
\* description (the button is disabled then, line 248); else it hands null to
\* handleImageUpload, the trimmed description to setCharacterTextPrompt
\* (src/StoryApp.tsx, lines 24, 313) and calls handleImageNext
GenerateCharacter ==
    /\ step = "upload" /\ characterImage = NoCharacter
    /\ \E text \in DescriptionInputs :
         IF Trim(text) = ""
         THEN /\ IdleClick
              /\ UNCHANGED <<localVars, gaiFailedIds, procs, step, characterImage,
                             characterTextPrompt>>
         ELSE /\ NavigationClick
              /\ characterImage' = NoCharacter
              /\ characterTextPrompt' = Trim(text)
              /\ SetStep("story")
    /\ UNCHANGED <<story, storyboards, appGeneratedImages, sbSets, created, revoked,
                   keptByNavigation>>

\* `story.trim().length < 50` (src/StoryApp.tsx, line 98;
\* src/components/StoryEditor.tsx, lines 27, 34)
MinStoryLength == 50
\* what the user has typed into the story box: nothing, 49 characters between
\* white space, 50 characters
StoryInputs == {"", "  " \o Rep("Q", MinStoryLength - 1) \o "\n", Rep("Q", MinStoryLength)}

\* the story box changes (src/components/StoryEditor.tsx, lines 18-22):
\* handleStoryChange (src/StoryApp.tsx, lines 88-94)
StoryChange ==
    /\ step = "story"
    /\ \E text \in StoryInputs :
         /\ story' = text
         /\ IF text # story THEN NavigationClick ELSE IdleClick
    /\ UNCHANGED <<localVars, gaiFailedIds, procs, step, characterImage,
                   characterTextPrompt, storyboards, appGeneratedImages, sbSets, created,
                   revoked, keptByNavigation>>

\* the story is long enough for the submit button of StoryEditor
\* (src/components/StoryEditor.tsx, lines 25-32, 123; src/StoryApp.tsx, line 98)
StoryLongEnough(text) == ~(Len(Trim(text)) < MinStoryLength)

\* the submit button of StoryEditor: it is disabled, and handleSubmit returns before
\* onNext, while the story is too short, so that handleStoryNext (src/StoryApp.tsx,
\* lines 97-111) is called only with a story that passes its own test
StoryNext ==
    /\ step = "story" /\ StoryLongEnough(story)
    /\ NavigationClick
    /\ SetStep("storyboard")
    /\ UNCHANGED <<characterImage, story, characterTextPrompt, storyboards,
                   appGeneratedImages, sbSets, created, revoked, keptByNavigation>>

\* the continue button of StoryboardGenerator (src/components/StoryboardGenerator.tsx,
\* lines 172, 273-286), rendered once generateStoryboards (lines 25-107) has made a
\* list that is not empty, which takes a story that is not blank and an API key:
\* handleStoryboardsGenerated (src/StoryApp.tsx, lines 114-121) keeps the list and
\* sets currentStep to "generation"
StoryboardsGenerated ==
    /\ step = "storyboard" /\ Trim(story) # "" /\ HasKey(apiKey)
    /\ sbSets < MaxStoryboardSets
    /\ sbSets' = sbSets + 1
    /\ storyboards' = sbSets + 1
    /\ SetStep("generation")
    /\ clicks' = 0
    /\ UNCHANGED <<characterImage, story, characterTextPrompt, appGeneratedImages, created,
                   revoked, keptByNavigation>>

\* a click on the back button of the header, rendered at every step but "upload"
\* (src/StoryApp.tsx, lines 189-197): handleGoBack
GoBack ==
    /\ step # "upload"
    /\ NavigationClick
    /\ SetStep(handleGoBack(step))
    /\ UNCHANGED <<characterImage, story, characterTextPrompt, storyboards,
                   appGeneratedImages, sbSets, created, revoked, keptByNavigation>>

\* a click on a restart button (src/StoryApp.tsx, lines 215-220, 408-413):
\* handleRestart (lines 147-170) revokes the character image (the generated images
\* are data URLs or https URLs, never object URLs) and sets the state to the initial
\* one, the API key aside; characterTextPrompt is a state of its own (line 24) and
\* is kept
Restart ==
    /\ NavigationClick
    /\ revoked' = Revoked(characterImage)
    /\ characterImage' = NoCharacter
    /\ story' = ""
    /\ storyboards' = 0
    /\ appGeneratedImages' = <<>>
    /\ SetStep("upload")
    /\ UNCHANGED <<characterTextPrompt, sbSets, created, keptByNavigation>>

\* a click on the edit button of the result step (src/StoryApp.tsx, lines 414-420)
EditAgain ==
    /\ step = "result"
    /\ SetStep("generation")
    /\ UNCHANGED <<characterImage, parentVars, appGeneratedImages, keptByNavigation>>

\* the bootstrap request of invocation k resolved with an image
BootstrapResolves(k) ==
    /\ procs[k].pc = "bootstrap"
    /\ \E imageUrl \in BootstrapImages : Apply(k, BootstrapResolved(Cur, procs[k], imageUrl))
    /\ UNCHANGED <<nops, parentVars, auxVars, pureVars, retryVars>>

\* the bootstrap request of invocation k failed
BootstrapRejects(k) ==
    /\ procs[k].pc = "bootstrap"
    /\ Apply(k, BootstrapRejected(Cur, procs[k]))
    /\ UNCHANGED <<nops, parentVars, auxVars, pureVars, retryVars>>

\* the fetch of the character image awaited by invocation k gave the image: the
\* generation request is sent (lines 100-115)
ImageFetched(k) ==
    /\ procs[k].pc = "call" /\ procs[k].w.st = "calling" /\ procs[k].stage = "image"
    /\ Apply(k, Eff(Cur, [procs[k] EXCEPT !.stage = "request"]))
    /\ UNCHANGED <<nops, parentVars, auxVars, pureVars, retryVars>>

\* the attempt awaited by invocation k resolved with an image before its deadline
AttemptResolves(k) ==
    /\ procs[k].pc = "call" /\ procs[k].w.st = "calling" /\ procs[k].stage = "request"
    /\ Apply(k, OnReturned(Cur, [procs[k] EXCEPT !.w = RetryOnResolve(@),
                                                 !.stage = "none"], k))
    /\ latest' = [latest EXCEPT ![procs[k].sb] = k]
    /\ UNCHANGED <<nops, parentVars, givenUp, pureVars, retryVars>>

\* the attempt awaited by invocation k failed with e: the wrapper sleeps its
\* backoff, or throws e to the handler
AttemptFailsWith(k, e) ==
    /\ procs[k].pc = "call" /\ procs[k].w.st = "calling"
    /\ LET w1 == RetryOnFailure(procs[k].w, e)
           p1 == [procs[k] EXCEPT !.w = w1, !.stage = "none"]
       IN  IF w1.st = "thrown"
           THEN Apply(k, OnThrown(Cur, p1, e))
           ELSE Apply(k, Eff(Cur, p1))
    /\ UNCHANGED <<nops, parentVars, latest, pureVars, retryVars>>

\* the attempt awaited by invocation k rejected before its deadline: the fetch of the
\* character image, the generation request or the reading of its response failed
AttemptRejects(k) ==
    /\ procs[k].w.timer = "pending"
    /\ AttemptFailsWith(k, "api")
    /\ UNCHANGED givenUp

\* the deadline of the attempt awaited by invocation k expired before the attempt
\* settled: the race rejects, and what the attempt was fetching stays in flight
\* (lines 31-36)
DeadlineExpires(k) ==
    /\ procs[k].w.timer = "pending"
    /\ AttemptFailsWith(k, "timeout")
    /\ IF procs[k].stage = "image"
       THEN abandonedFetches' = abandonedFetches + 1 /\ UNCHANGED abandoned
       ELSE IF procs[k].stage = "deadImage" THEN UNCHANGED givenUp
       ELSE abandoned' = abandoned + 1 /\ UNCHANGED abandonedFetches

LateOutcomeFolds(s, how) ==
    IF how = "ok"
    THEN [s EXCEPT !.generatedImages = Append(@, Img(1, 0))]
    ELSE [s EXCEPT !.failedIds = @ \cup {1}]
\* a promise that lost the race settles (how: "ok" or "failed"): the race is settled
\* already and takes no second outcome (lines 31-34), and generateSingleImage itself
\* sets no state (lines 66-128)
LateOutcome(s, how) == s

\* a request given up at its deadline settled; nothing awaits its outcome any more
AbandonedSettles ==
    /\ abandoned > 0
    /\ abandoned' = abandoned - 1
    /\ \E how \in {"ok", "failed"} : Commit(LateOutcome(Cur, how))
    /\ UNCHANGED <<parentVars, appGeneratedImages, procs, nops, abandonedFetches, latest,
                   attempts, pureVars, retryVars>>

\* the fetch of the character image of an attempt given up at its deadline settled:
\* with the image, and the attempt sends its generation request, which nothing
\* awaits (lines 100-115); or with an error, and the attempt ends
AbandonedFetchSettles ==
    /\ abandonedFetches > 0
    /\ abandonedFetches' = abandonedFetches - 1
    /\ \E fetched \in BOOLEAN : abandoned' = IF fetched THEN abandoned + 1 ELSE abandoned
    /\ UNCHANGED <<localVars, apiKey, characterImage, parentVars, appGeneratedImages, step,
                   gaiFailedIds, emitted, procs, nops, latest, attempts, pureVars,
                   retryVars>>

\* the backoff slept by invocation k elapsed
BackoffElapses(k) ==
    /\ procs[k].pc = "call" /\ procs[k].w.st = "sleeping"
    /\ Apply(k, Eff(Cur, [procs[k] EXCEPT !.w = RetryOnWake(@),
                                          !.stage = FirstAwait(procs[k].cImg)]))
    /\ UNCHANGED <<nops, parentVars, auxVars, pureVars, retryVars>>

\* a pacing sleep of invocation k elapsed
PacingElapses(k) ==
    /\ procs[k].pc \in {"pace", "bootSleep"}
    /\ Apply(k, OnWake(Cur, procs[k]))
    /\ UNCHANGED <<nops, parentVars, auxVars, pureVars, retryVars>>

ParseIdle == envelope = [images |-> NoImages, msgImages |-> NoImages, content |-> NoContent]
             /\ parsed = Pending /\ logged = {}
RetryIdle == rw = IdleW /\ rwLog = <<>> /\ rwSlept = <<>>

\* no handler of ImageGenerator has been invoked, and the state of the component is
\* the initial state of useState (lines 20-25)
NothingInvoked ==
    /\ generatedImages = <<>>
    /\ currentGenerating = NullCG
    /\ progress = ZeroProgress
    /\ error = NoError
    /\ failedIds = {}
    /\ referenceReady = (characterImage # NoCharacter)
    /\ gaiFailedIds = {}
    /\ emitted = <<>>
    /\ appGeneratedImages = <<>>
    /\ procs = [k \in Ops |-> IdleProc]
    /\ nops = 0
    /\ abandoned = 0
    /\ abandonedFetches = 0
    /\ latest = NoneLatest

\* the application after its first render and its start-up effect
\* (src/StoryApp.tsx, lines 13-24, 33-46): the upload page, and the API key found in
\* localStorage or the environment, if any
AppStart ==
    /\ apiKey \in {NoKey, StoredKey}
    /\ characterImage = NoCharacter
    /\ NothingInvoked
    /\ story = ""
    /\ characterTextPrompt = ""
    /\ storyboards = 0
    /\ step = "upload"
    /\ sbSets = 0 /\ created = {} /\ revoked = {} /\ clicks = 0

\* ImageGenerator after its first render, as the pages before it lead to it: with
\* an API key, a story of MinStoryLength characters and storyboards, and with the
\* image uploaded or none
CompStart ==
    /\ apiKey = StoredKey
    /\ characterImage \in {NoCharacter, UploadedImage}
    /\ NothingInvoked
    /\ story = Rep("Q", MinStoryLength)
    /\ characterTextPrompt = ""
    /\ storyboards = 1
    /\ step = "generation"
    /\ sbSets = 1 /\ created = {characterImage} \ {NoCharacter} /\ revoked = {}
    /\ clicks = 0

CompInit == CompStart /\ attempts = NotCounting

(***************************************************************************)
(* Spec: the application from its first render: the pages that lead to     *)
(* the generation step, up to MaxOps handler invocations of ImageGenerator, *)
(* and the API key, back, restart and edit buttons of the parent at any    *)
(* moment, also while handlers run; every attempt resolved or rejected     *)
(* before its deadline.  The deadlines are in SpecLive.                    *)
(***************************************************************************)
Init ==
    /\ AppStart /\ attempts = NotCounting
    /\ ParseIdle /\ RequestIdle /\ TransportIdle /\ RetryIdle

Next ==
    \/ ClickGenerateAll
    \/ \E sb \in Storyboards : ClickRegenerate(sb)
    \/ InvokeRetryAllFailed
    \/ ChangeApiKey
    \/ SelectFile
    \/ ClearImage
    \/ ImageNext
    \/ SkipCharacter
    \/ GenerateCharacter
    \/ StoryChange
    \/ StoryNext
    \/ StoryboardsGenerated
    \/ GoBack
    \/ Restart
    \/ EditAgain
    \/ \E k \in Ops : BootstrapResolves(k)
    \/ \E k \in Ops : BootstrapRejects(k)
    \/ \E k \in Ops : ImageFetched(k)
    \/ \E k \in Ops : AttemptResolves(k)
    \/ \E k \in Ops : AttemptRejects(k)
    \/ \E k \in Ops : BackoffElapses(k)
    \/ \E k \in Ops : PacingElapses(k)

Spec == Init /\ [][Next]_vars

(***************************************************************************)
(* SpecRetry: one call of generateSingleImageWithRetry                     *)
(***************************************************************************)
\* largest maxRetries the call under test is given
MaxMaxRetries == 4

CompIdle ==
    /\ CompInit
    /\ characterImage = UploadedImage

\* the attempt resolved with an image before its deadline
RwResolves ==
    /\ rw.st = "calling" /\ rw.timer = "pending"
    /\ rw' = RetryOnResolve(rw)
    /\ rwLog' = Append(rwLog, "ok")
    /\ UNCHANGED <<rwSlept, compVars, pureVars>>

\* the attempt failed with e; the delay of the sleep that follows is recorded
RwFailsWith(e) ==
    /\ rw.st = "calling" /\ rw.timer = "pending"
    /\ rw' = RetryOnFailure(rw, e)
    /\ rwLog' = Append(rwLog, e)
    /\ \E jitter \in Jitter :
         rwSlept' = IF rw'.st = "sleeping"
                    THEN <<Backoff(rw.baseDelayMs, rw.attempt, jitter)>>
                    ELSE rwSlept
    /\ UNCHANGED <<compVars, pureVars>>

\* the attempt rejected before its deadline
RwRejects == RwFailsWith("api")

\* the timer fired before the attempt settled
RwTimesOut == RwFailsWith("timeout")

\* the backoff elapsed
RwWakes ==
    /\ rw.st = "sleeping"
    /\ rw' = RetryOnWake(rw)
    /\ UNCHANGED <<rwLog, rwSlept, compVars, pureVars>>

InitRetry ==
    /\ CompIdle /\ ParseIdle /\ RequestIdle /\ TransportIdle
    /\ \E m \in 0..MaxMaxRetries, b \in {FirstBaseDelayMs, RetryBaseDelayMs} :
          rw = RetryStart(m, b)
    /\ rwLog = <<>>
    /\ rwSlept = <<>>

NextRetry == RwResolves \/ RwRejects \/ RwTimesOut \/ RwWakes

SpecRetry == InitRetry /\ [][NextRetry]_vars

(***************************************************************************)
(* SpecParse: generateImage applied to each envelope                       *)
(***************************************************************************)
Parse ==
    /\ parsed = Pending
    /\ parsed' = generateImage(envelope)
    /\ logged' = consoleLog(envelope)
    /\ UNCHANGED <<envelope, requestVars, transportVars, compVars, retryVars>>

InitParse ==
    /\ CompIdle /\ RetryIdle /\ RequestIdle /\ TransportIdle
    /\ envelope \in Envelopes
    /\ parsed = Pending
    /\ logged = {}

NextParse == Parse

SpecParse == InitParse /\ [][NextParse]_vars

(***************************************************************************)
(* SpecRequest: generateSingleImage applied to each combination of props   *)
(***************************************************************************)
ComposeRequest ==
    /\ ~gsiOut.done
    /\ gsiOut' = generateSingleImage(gsiIn)
    /\ UNCHANGED <<gsiIn, eriOut, parseVars, transportVars, compVars, retryVars>>

InitRequest ==
    /\ CompIdle /\ RetryIdle /\ ParseIdle /\ TransportIdle
    /\ gsiIn \in RequestInputs
    /\ gsiOut = NotComposed
    /\ eriOut = NotComposed

NextRequest == ComposeRequest

SpecRequest == InitRequest /\ [][NextRequest]_vars

(***************************************************************************)
(* SpecIdentity: ensureReferenceImage and generateSingleImage applied to   *)
(* the same props, with no character image                                 *)
(***************************************************************************)
ComposeBootstrap ==
    /\ ~eriOut.done
    /\ eriOut' = ensureReferenceImage(gsiIn)
    /\ UNCHANGED <<gsiIn, gsiOut, parseVars, transportVars, compVars, retryVars>>

InitIdentity ==
    /\ CompIdle /\ RetryIdle /\ ParseIdle /\ TransportIdle
    /\ gsiIn \in IdentityInputs
    /\ gsiOut = NotComposed
    /\ eriOut = NotComposed

NextIdentity == ComposeBootstrap \/ ComposeRequest

SpecIdentity == InitIdentity /\ [][NextIdentity]_vars

(***************************************************************************)
(* SpecReentry: start-button clicks and one manual regeneration, with a    *)
(* character image and an API key present and every request answered       *)
(* before its deadline                                                     *)
(***************************************************************************)
ManualStarted == Cardinality({k \in Ops : procs[k].kind = "regen"})

ReentryGenerateAll == GenerateAllClicked(MaxReentryOps)

ReentryRegenerate(sb) ==
    /\ ManualStarted < MaxManual
    /\ RegenerateClicked(MaxReentryOps, sb)

InitReentry == CompIdle /\ ParseIdle /\ RequestIdle /\ TransportIdle /\ RetryIdle

NextReentry ==
    \/ ReentryGenerateAll
    \/ \E sb \in Storyboards : ReentryRegenerate(sb)
    \/ \E k \in Ops : ImageFetched(k)
    \/ \E k \in Ops : AttemptResolves(k)
    \/ \E k \in Ops : AttemptRejects(k)
    \/ \E k \in Ops : BackoffElapses(k)
    \/ \E k \in Ops : PacingElapses(k)

SpecReentry == InitReentry /\ [][NextReentry]_vars

(***************************************************************************)
(* SpecManual: the manual entry points only, regenerateImage and           *)
(* retryAllFailed, up to MaxFrames invocations, every request answered     *)
(* before its deadline                                                     *)
(***************************************************************************)
ManualRegenerate(sb) == RegenerateClicked(MaxFrames, sb)

\* a click on the retry-all button
ManualRetryAll ==
    /\ CanRetryAllFailed(Cur)
    /\ RetryAllFailedClicked(MaxFrames)

InitManual == CompIdle /\ ParseIdle /\ RequestIdle /\ TransportIdle /\ RetryIdle

NextManual ==
    \/ \E sb \in Storyboards : ManualRegenerate(sb)
    \/ ManualRetryAll
    \/ \E k \in Ops : ImageFetched(k)
    \/ \E k \in Ops : AttemptResolves(k)
    \/ \E k \in Ops : AttemptRejects(k)
    \/ \E k \in Ops : BackoffElapses(k)
    \/ \E k \in Ops : PacingElapses(k)

SpecManual == InitManual /\ [][NextManual]_vars

(***************************************************************************)
(* SpecLive: one batch run in which every timer and every sleep eventually *)
(* fires, while a request may stay unanswered for ever                     *)
(***************************************************************************)
LiveGenerateAll == GenerateAllClicked(1)

InitLive == CompStart /\ attempts = CountingFromZero /\ ParseIdle /\ RequestIdle /\ TransportIdle /\ RetryIdle

NextLive ==
    \/ LiveGenerateAll
    \/ \E k \in Ops : BootstrapResolves(k)
    \/ \E k \in Ops : BootstrapRejects(k)
    \/ \E k \in Ops : ImageFetched(k)
    \/ \E k \in Ops : AttemptResolves(k)
    \/ \E k \in Ops : AttemptRejects(k)
    \/ \E k \in Ops : DeadlineExpires(k)
    \/ AbandonedSettles
    \/ AbandonedFetchSettles
    \/ \E k \in Ops : BackoffElapses(k)
    \/ \E k \in Ops : PacingElapses(k)

\* setTimeout callbacks run once their delay has passed: the deadline of withTimeout
\* (line 34) and the sleeps (line 27)
TimersFire ==
    /\ WF_vars(\E k \in Ops : DeadlineExpires(k))
    /\ WF_vars(\E k \in Ops : BackoffElapses(k))
    /\ WF_vars(\E k \in Ops : PacingElapses(k))

SpecLive == InitLive /\ [][NextLive]_vars /\ TimersFire

(***************************************************************************)
(* SpecTransport: generateImage and generateText against each response     *)
(***************************************************************************)
\* the function is called and sends its request
HttpSend ==
    /\ httpOut = NotCalled
    /\ httpOut' = AwaitingResponse
    /\ UNCHANGED <<httpIn, parseVars, requestVars, compVars, retryVars>>

\* the status line and headers arrive
HttpResponds ==
    /\ httpOut = AwaitingResponse
    /\ httpOut' = OnResponse(httpIn)
    /\ UNCHANGED <<httpIn, parseVars, requestVars, compVars, retryVars>>

\* the body arrives and parses
HttpBodyArrives ==
    /\ httpOut = AwaitingBody
    /\ httpOut' = OnBody(httpIn)
    /\ UNCHANGED <<httpIn, parseVars, requestVars, compVars, retryVars>>

InitTransport ==
    /\ CompIdle /\ RetryIdle /\ ParseIdle /\ RequestIdle
    /\ httpIn \in HttpInputs
    /\ httpOut = NotCalled

NextTransport == HttpSend \/ HttpResponds \/ HttpBodyArrives

SpecTransport == InitTransport /\ [][NextTransport]_vars

(***************************************************************************)
(* Properties of generateSingleImageWithRetry and withTimeout (SpecRetry)  *)
(***************************************************************************)
Last(q) == q[Len(q)]

\* the call under test has settled
RwSettled == rw.st \in {"returned", "thrown"}

\* C1: with maxRetries = m, a call whose attempt fails its first k times makes exactly
\* min(k, m) + 1 attempts; it returns at the first successful attempt when k <= m and
\* otherwise throws the error of attempt m + 1.  The backoff slept before retry n
\* (n = 0, 1, ...) is baseDelayMs * 2^n plus a jitter in 0..199, and no backoff is
\* slept after the last failed attempt (with (3, 800): 4 attempts, 800, 1600, 3200).
C1_RetryAttempts ==
    /\ rw.calls = Len(rwLog) + (IF rw.st = "calling" THEN 1 ELSE 0)
    /\ rw.calls <= rw.maxRetries + 1
    /\ \A n \in 1..Len(rwLog) : n < Len(rwLog) => rwLog[n] # "ok"
    /\ rw.st = "returned" =>
          /\ Last(rwLog) = "ok"
          /\ rw.fails <= rw.maxRetries
          /\ rw.calls = Min(rw.fails, rw.maxRetries) + 1
          /\ rw.sleeps = rw.fails
    /\ rw.st = "thrown" =>
          /\ rw.fails = rw.maxRetries + 1
          /\ rw.calls = Min(rw.fails, rw.maxRetries) + 1
          /\ rw.err = rwLog[rw.maxRetries + 1]
          /\ rw.sleeps = rw.maxRetries
    /\ rw.st = "sleeping" => rw.sleeps = Len(rwLog)
    /\ rw.sleeps = 0 <=> rwSlept = <<>>
    /\ rw.sleeps > 0 =>
          /\ Len(rwSlept) = 1
          /\ rwSlept[1] - rw.baseDelayMs * 2^(rw.sleeps - 1) \in 0..(JitterRange - 1)

\* a permanently failing call with (maxRetries = 3, baseDelayMs = 800) has thrown
\* after 4 attempts and 3 backoffs, the last of 3200 ms plus a jitter of 137
C1_Witness ==
    /\ rw.st = "thrown" /\ rw.maxRetries = 3 /\ rw.baseDelayMs = 800
    /\ rw.calls = 4 /\ rw.sleeps = 3
    /\ rwSlept = <<3337>>

\* C2: an attempt whose deadline expires before the operation settles fails with the
\* timeout error, and in every outcome (resolved, rejected, deadline expired) the
\* timer of withTimeout is no longer pending once withTimeout has settled.
C2_TimerReleased ==
    /\ rw.st # "calling" => rw.timer # "pending"
    /\ (rwLog # <<>> /\ rw.st # "calling") =>
          (rw.timer = "fired" <=> Last(rwLog) = "timeout")
    /\ rw.fails = Cardinality({n \in 1..Len(rwLog) : rwLog[n] \in AttemptErrors})
    /\ (rw.st = "thrown" /\ Last(rwLog) = "timeout") => rw.err = "timeout"

\* the call has thrown the timeout error of its last attempt after an earlier
\* attempt was rejected, and no timer is pending
C2_Witness ==
    /\ rw.st = "thrown" /\ rw.err = "timeout" /\ rw.timer = "fired"
    /\ \E n \in 1..Len(rwLog) : rwLog[n] = "api"

(***************************************************************************)
(* Properties of the component (Spec)                                      *)
(***************************************************************************)
Ids(list) == [n \in 1..Len(list) |-> list[n].storyboardId]

\* no invocation is running and no scene is in progress
Quiescent ==
    /\ currentGenerating = NullCG
    /\ \A k \in Ops : procs[k].pc \in {"idle", "done"}

\* the only invocation is a batch over three storyboards that started with an empty
\* failed set, where scene 2 exhausted its first-pass attempts and scenes 1, 3
\* succeeded, and no navigation control has been clicked since the component was
\* mounted
C3_Scenario ==
    /\ NumStoryboards = 3 /\ nops = 1 /\ clicks = 0
    /\ procs[1].kind = "batch" /\ procs[1].fIds = {}
    /\ procs[1].failedSbs = <<2>>

\* C3: in a 3-storyboard batch where scene 2 fails all first-pass attempts and scenes
\* 1 and 3 succeed, the result list has 2 entries and the failed set is {scene 2}
\* after the first pass; if scene 2 then succeeds in the retry phase, the batch ends
\* with the result list holding 3 entries and the failed set empty.
C3_BatchSelfHeals ==
    /\ (C3_Scenario /\ procs[1].phase = "retry" /\ procs[1].pc = "call"
            /\ Ids(procs[1].list) = <<1, 3>>) =>
          (Len(generatedImages) = 2 /\ failedIds = {2})
    /\ (C3_Scenario /\ procs[1].pc = "done" /\ Ids(procs[1].list) = <<1, 3, 2>>) =>
          (Len(generatedImages) = 3 /\ failedIds = {})

\* C4: whenever no operation is in progress, no storyboard id is both in the failed
\* set and the storyboardId of an entry of the result list.
C4_DisjointAtQuiescence ==
    Quiescent => \A n \in 1..Len(generatedImages) :
                     generatedImages[n].storyboardId \notin failedIds

\* invocation k is a regenerateImage of the mounted component whose call returns an
\* image in this step
RegenSucceeds(k) ==
    /\ procs[k].kind = "regen" /\ procs[k].pc = "call" /\ procs[k].live
    /\ procs'[k].pc = "done" /\ procs'[k].emits = procs[k].emits + 1

\* C5: when regenerateImage succeeds for a storyboard that has an entry in the result
\* list, the new list has the same length, the new image sits at the index of the
\* replaced entry and every other entry is unchanged; when the storyboard has no
\* entry, exactly one entry is appended; in neither case does the list hold two
\* entries with that storyboardId.
C5_RegenerateUpserts ==
    [][\A k \in Ops : RegenSucceeds(k) =>
          LET sb == procs[k].sb
              at == {n \in 1..Len(generatedImages) : generatedImages[n].storyboardId = sb}
          IN  /\ at # {} =>
                    /\ Len(generatedImages') = Len(generatedImages)
                    /\ \A n \in 1..Len(generatedImages) :
                          generatedImages'[n] = IF n \in at THEN Img(sb, k)
                                                ELSE generatedImages[n]
              /\ at = {} => generatedImages' = Append(generatedImages, Img(sb, k))
              /\ Cardinality({n \in 1..Len(generatedImages') :
                                 generatedImages'[n].storyboardId = sb}) = 1
      ]_vars

\* this step starts invocation nops + 1 as a retryAllFailed
RetryAllInvoked == nops' = nops + 1 /\ procs'[nops + 1].kind = "retryAll"

\* C6: retryAllFailed invoked while the failed set is empty changes neither the result
\* list, the failed set, the progress nor the error, and issues no request; a batch
\* whose first pass had no failure never enters the retry phase and issues no
\* retry-pass request.
C6_NoOpOnEmptyFailedSet ==
    [][/\ (RetryAllInvoked /\ failedIds = {}) =>
              /\ UNCHANGED <<generatedImages, failedIds, progress, error,
                             currentGenerating, emitted>>
              /\ procs'[nops + 1].pc = "done" /\ procs'[nops + 1].w = IdleW
              /\ \A k \in Ops : k # nops + 1 => procs'[k] = procs[k]
       /\ \A k \in Ops :
              (procs[k].kind = "batch" /\ procs'[k].phase = "retry") =>
                  procs'[k].failedSbs # <<>>
       /\ \A k \in Ops :
              (procs'[k].kind = "batch" /\ procs'[k].pc = "call"
                  /\ procs'[k].w.maxRetries = RetryMaxRetries) =>
                  (procs'[k].phase = "retry" /\ procs'[k].failedSbs # <<>>)
      ]_vars

\* a batch finished all three scenes without a failure and without a retry phase, and
\* a retryAllFailed invoked on the empty failed set, after the return to the
\* generation step, returned at once
C6_Witness ==
    /\ Mounted
    /\ procs[1].kind = "batch" /\ procs[1].pc = "done" /\ procs[1].phase = "first"
    /\ procs[1].failedSbs = <<>> /\ Len(procs[1].list) = NumStoryboards
    /\ procs[2].kind = "retryAll" /\ procs[2].noop /\ procs[2].fIds = {}
    /\ failedIds = {} /\ error = NoError

(***************************************************************************)
(* Properties of the response reconciler (SpecParse).                      *)
(*                                                                         *)
(* The rules are restated here as a table of candidates, independently of  *)
(* the operators above: a response holds candidate strings in probe order, *)
(* and a candidate is accepted verbatim, accepted wrapped, or passed over. *)
(***************************************************************************)
Cand(s, verbatim, wrap) == [s |-> s, verbatim |-> verbatim, wrap |-> wrap]

Accepted(c) == c.verbatim \/ c.wrap

Payload(c) == IF c.verbatim THEN c.s ELSE "data:image/png;base64," \o c.s

UrlMarked(s) == StartsWith(s, "data:image") \/ StartsWith(s, "http")

\* a URL candidate of rules (1), (2): verbatim with a URL prefix, else wrapped when long
UrlCand(s) == Cand(s, UrlMarked(s), ~UrlMarked(s) /\ Len(s) > 1000)

\* a base64 candidate: wrapped when long
Base64Cand(s) == Cand(s, FALSE, Len(s) > 1000)

\* rules (1) and (2): the first entry of an images array
ImagesCands(images) ==
    IF images.t # "arr" \/ images.items = <<>> THEN <<>>
    ELSE LET e == images.items[1]
         IN  (IF e.image_url.t \in {"str", "obj"} THEN <<UrlCand(e.image_url.s)>> ELSE <<>>)
             \o (IF e.b64_json.t = "str" THEN <<Base64Cand(e.b64_json.s)>> ELSE <<>>)

\* the text of a string content (an absent content counts as the empty string)
ContentText(env) ==
    IF env.content.t \in {"undef", "null"} THEN <<"">>
    ELSE IF env.content.t = "str" THEN <<env.content.s>>
    ELSE <<>>

\* rule (3): verbatim when the text contains data:image, wrapped when it contains
\* base64 and is long
TextCands(env) ==
    [n \in 1..Len(ContentText(env)) |->
        LET c == ContentText(env)[n]
        IN  Cand(c, Includes(c, "data:image"),
                 ~Includes(c, "data:image") /\ Includes(c, "base64") /\ Len(c) > 1000)]

\* the base64 field of a part: the first non-empty of b64_json, image_base64, data
PartBase64(part) ==
    LET fields == <<part.b64_json, part.image_base64, part.data>>
        full == {n \in 1..3 : fields[n].t = "str" /\ fields[n].s # ""}
    IN  IF full = {} THEN fields[3] ELSE fields[CHOOSE n \in full : \A m \in full : n <= m]

\* rule (4): per image-like part, the URL verbatim with a URL prefix (never wrapped),
\* then the base64 field wrapped when long
RECURSIVE PartsCands(_)
PartsCands(parts) ==
    IF parts = <<>> THEN <<>>
    ELSE LET part == Head(parts)
             here == IF part.type \notin {"image_url", "output_image", "image"} THEN <<>>
                     ELSE (IF part.image_url.t \in {"str", "obj"}
                           THEN <<Cand(part.image_url.s, UrlMarked(part.image_url.s), FALSE)>>
                           ELSE <<>>)
                          \o (IF PartBase64(part).t = "str"
                              THEN <<Base64Cand(PartBase64(part).s)>> ELSE <<>>)
         IN  here \o PartsCands(Tail(parts))

ArrayCands(env) == IF env.content.t = "arr" THEN PartsCands(env.content.parts) ELSE <<>>

\* the four locations in probe order
Locations(env) ==
    <<ImagesCands(env.images), ImagesCands(env.msgImages), TextCands(env), ArrayCands(env)>>

Holds(cands) == \E n \in 1..Len(cands) : Accepted(cands[n])

\* the payload of the first accepted candidate
FirstPayload(cands) ==
    Payload(cands[CHOOSE n \in 1..Len(cands) :
                     Accepted(cands[n]) /\ \A m \in 1..(n - 1) : ~Accepted(cands[m])])

\* the result is the first accepted candidate of cands, or an error when there is none
Agrees(cands, result) ==
    IF Holds(cands) THEN result.ok /\ result.v = FirstPayload(cands) ELSE ~result.ok

\* C7: the reconciler probes the top-level images array, then choices[0].message.images,
\* then the content string, then the content array, and returns the payload of the
\* first location holding an acceptable one; an acceptable payload at a later location
\* is never returned when an earlier location also holds one.
C7_Precedence ==
    parsed # Pending =>
        LET locs == Locations(envelope)
            holders == {l \in 1..4 : Holds(locs[l])}
        IN  /\ holders = {} => ~parsed.ok
            /\ \A l \in holders :
                  (\A e \in holders : l <= e) =>
                      /\ parsed.ok /\ parsed.v = FirstPayload(locs[l])
                      /\ \A e \in holders :
                            FirstPayload(locs[e]) # FirstPayload(locs[l]) =>
                                parsed.v # FirstPayload(locs[e])

\* both images arrays and the content hold acceptable payloads, all different, and the
\* one of the top-level array was returned
C7_Witness ==
    /\ parsed.ok
    /\ \A l \in 1..3 : Holds(Locations(envelope)[l])
    /\ FirstPayload(Locations(envelope)[1]) # FirstPayload(Locations(envelope)[2])
    /\ FirstPayload(Locations(envelope)[1]) # FirstPayload(Locations(envelope)[3])
    /\ parsed.v = FirstPayload(Locations(envelope)[1])

WellFormed(v) ==
    StartsWith(v, "data:image") \/ StartsWith(v, "http://") \/ StartsWith(v, "https://")

AllCands(env) ==
    Locations(env)[1] \o Locations(env)[2] \o Locations(env)[3] \o Locations(env)[4]

\* C8: whenever the reconciler returns a value, the value begins with data:image or
\* with http:// or https://; if no rule matches, it fails with an error rather than
\* returning a value.
C8_WellFormedOrError ==
    parsed # Pending =>
        /\ parsed.ok => WellFormed(parsed.v)
        /\ ~Holds(AllCands(envelope)) => (~parsed.ok /\ parsed.kind \in {"text", "parts", "none"})

\* the candidates of every rule under one threshold rule: verbatim with a URL prefix,
\* wrapped when long without one, passed over otherwise
UniformCands(env) == [n \in 1..Len(AllCands(env)) |-> UrlCand(AllCands(env)[n].s)]

\* C9 as stated: in every rule (1)-(4), a candidate without a URL prefix whose length
\* is <= 1000 is never returned as an image payload, and such a candidate of length
\* > 1000 is always returned wrapped as data:image/png;base64,<value>; the boundary is
\* exactly 1000.
C9_ThresholdInEveryRule ==
    parsed # Pending => Agrees(UniformCands(envelope), parsed)

\* C9, amended: a candidate without a URL marker whose length is <= 1000 is never
\* returned, verbatim or wrapped (for the content string of rule (3) the marker is
\* data:image anywhere in it); a candidate of length > 1000 without a URL prefix that
\* is reached is returned wrapped when it is the image_url string or b64_json of rules
\* (1), (2) or the base64 field of an image-like part of rule (4); a content string is
\* wrapped only when it is longer than 1000 and contains base64, and the URL field of
\* a part is never wrapped.  The boundary is exactly 1000.
C9_ThresholdWhereApplied ==
    parsed # Pending =>
        LET cands == AllCands(envelope)
            wrapped(c) == "data:image/png;base64," \o c
        IN  /\ \A n \in 1..Len(cands) :
                  LET c == cands[n].s
                  IN  (Len(c) <= 1000 /\ ~UrlMarked(c) /\ ~Includes(c, "data:image")) =>
                          ~(parsed.ok /\ parsed.v \in {c, wrapped(c)})
            /\ \A n \in 1..Len(cands) :
                  (cands[n].wrap /\ \A m \in 1..(n - 1) : ~Accepted(cands[m])) =>
                      (Len(cands[n].s) >= 1001 /\ parsed = Found(wrapped(cands[n].s)))
            /\ ~Holds(cands) => ~parsed.ok

\* the first entry of the top-level array holds an image_url string of exactly 1000
\* characters, passed over, and a b64_json of 1001 characters, returned wrapped
C9_Witness ==
    /\ envelope.images.t = "arr" /\ envelope.images.items # <<>>
    /\ LET e == envelope.images.items[1]
       IN  /\ e.image_url.t = "str" /\ Len(e.image_url.s) = 1000 /\ ~UrlMarked(e.image_url.s)
           /\ e.b64_json.t = "str" /\ Len(e.b64_json.s) = 1001
           /\ parsed = Found("data:image/png;base64," \o e.b64_json.s)

\* C10: when the response holds no image at either images array and its content is
\* a string that is no image (a refusal, say), the reconciler fails with the
\* no-image-data error, which reports the first 200 characters of the text (all of it
\* when shorter).
C10_TextOnlyError ==
    (/\ parsed # Pending
     /\ ~Holds(Locations(envelope)[1]) /\ ~Holds(Locations(envelope)[2])
     /\ ContentText(envelope) # <<>> /\ ~Holds(TextCands(envelope))) =>
        LET text == ContentText(envelope)[1]
            n == IF Len(text) < 200 THEN Len(text) ELSE 200
        IN  /\ ~parsed.ok /\ parsed.kind = "text"
            /\ parsed.detail = SubSeq(text, 1, n)
            /\ text = "Sorry, I can't generate that." =>
                  Includes(parsed.detail, "Sorry, I can't generate")

\* a text of more than 200 characters was reported by its first 200
C10_Witness ==
    /\ envelope.content.t = "str" /\ Len(envelope.content.s) > 200
    /\ ~Holds(Locations(envelope)[1]) /\ ~Holds(Locations(envelope)[2])
    /\ parsed.kind = "text" /\ Len(parsed.detail) = 200

(***************************************************************************)
(* Properties of the request composition (SpecRequest)                     *)
(***************************************************************************)
EndsWith(s, t) == Len(s) >= Len(t) /\ SubSeq(s, Len(s) - Len(t) + 1, Len(s)) = t

\* the hint sentence built around an identity text
HintAround(identity) ==
    "Use this as the main character identity: " \o identity
    \o ". Keep the identity consistent across all scenes."

\* the payload of a character image: what follows the first comma of a data URL, or
\* the bytes fetched from any other URL
PayloadOf(in) ==
    IF StartsWith(in.characterImage, "data:")
    THEN LET k == CHOOSE k \in 1..Len(in.characterImage) :
                     /\ SubSeq(in.characterImage, k, k) = ","
                     /\ \A j \in 1..(k - 1) : SubSeq(in.characterImage, j, j) # ","
         IN  SubSeq(in.characterImage, k + 1, Len(in.characterImage))
    ELSE in.blob.base64

\* C11: when a character image exists, the request of generateSingleImage carries that
\* image inline and no identity hint; otherwise it carries no image and its prompt
\* ends with an identity hint built from the character description when one is given,
\* else from the first 300 characters of the story (all of it when shorter); with no
\* image, no description and a 500-character story the hint holds exactly the first
\* 300 characters of the story.
C11_IdentityHintSelection ==
    gsiOut.done =>
        LET in == gsiIn
            n == IF Len(in.story) < 300 THEN Len(in.story) ELSE 300
        IN  /\ in.characterImage # "" =>
                  /\ gsiOut.sent <=> (StartsWith(in.characterImage, "data:") \/ in.blob.ok)
                  /\ gsiOut.sent =>
                        /\ gsiOut.image = "data:image/png;base64," \o PayloadOf(in)
                        /\ ~Includes(gsiOut.prompt, "identity")
            /\ in.characterImage = "" =>
                  /\ gsiOut.sent /\ gsiOut.image = ""
                  /\ in.characterPrompt # "" =>
                        EndsWith(gsiOut.prompt, "\n\n" \o HintAround(in.characterPrompt))
                  /\ (in.characterPrompt = "" /\ in.story # "") =>
                        EndsWith(gsiOut.prompt, "\n\n" \o HintAround(SubSeq(in.story, 1, n)))
                  /\ (in.characterPrompt = "" /\ Len(in.story) = 500) =>
                        /\ Includes(gsiOut.prompt, SubSeq(in.story, 1, 300))
                        /\ ~Includes(gsiOut.prompt, SubSeq(in.story, 1, 301))

\* no character image, no description and a 500-character story: the request went
\* out without an image and with a hint
C11_Witness ==
    /\ gsiOut.done /\ gsiOut.sent /\ gsiOut.image = ""
    /\ gsiIn.characterImage = "" /\ gsiIn.characterPrompt = "" /\ Len(gsiIn.story) = 500
    /\ Includes(gsiOut.prompt, "main character identity")


\* a batch whose reference bootstrap succeeded has a per-scene request in flight
BootstrappedRequest(k) ==
    /\ procs[k].kind = "batch" /\ procs[k].boot = "ok"
    /\ procs[k].pc = "call" /\ procs[k].w.st = "calling"

\* C12: after the reference bootstrap of a batch succeeded, every per-scene request of
\* that batch carries the bootstrap image inline instead of taking the identity-hint
\* path
C12_BootstrapFeedsBatch ==
    \A k \in Ops : BootstrappedRequest(k) => RequestMode(procs[k]) = "inline"

\* C13: the reference bootstrap is attempted only without a character image, issues
\* at most one request, and when it fails or there is no identity text the batch
\* still gives every storyboard its first-pass invocation, in order, on the
\* identity-hint path with no inline image, and never takes the batch-fatal path
C13_BootstrapSingleShotNonFatal ==
    \A k \in Ops :
        LET p == procs[k]
        IN  (p.kind = "batch" /\ ~p.noop) =>
                /\ p.cImg # NoCharacter => (p.boot = "none" /\ p.bootReqs = 0)
                /\ p.pc = "bootstrap" <=> p.boot = "issued"
                /\ p.bootReqs <= 1
                /\ p.bootReqs = 1 <=> p.boot \in {"issued", "ok", "failed"}
                /\ p.pc # "fatal"
                /\ p.boot \in {"failed", "noIdentity"} =>
                       /\ RequestMode(p) = "hint"
                       /\ p.inv # <<>>
                       /\ \A j \in 1..Min(Len(p.inv), NumStoryboards) :
                              /\ p.inv[j].sb = j
                              /\ p.inv[j].maxRetries = 3 /\ p.inv[j].baseDelayMs = 800
                       /\ p.pc = "done" => Len(p.inv) >= NumStoryboards

\* a batch whose bootstrap request failed has finished after a first pass over every
\* storyboard
C13_Witness ==
    \E k \in Ops :
        /\ procs[k].kind = "batch" /\ procs[k].boot = "failed" /\ procs[k].pc = "done"
        /\ Len(procs[k].inv) >= NumStoryboards
        /\ procs[k].bootReqs = 1

\* the generation requests in flight: the bootstrap request, the requests of the
\* attempts being awaited (an attempt that still fetches the character image has sent
\* none), and the requests whose attempt was given up at its deadline
InFlight ==
    abandoned + Cardinality({k \in Ops : \/ procs[k].pc = "bootstrap"
                                         \/ /\ procs[k].pc = "call"
                                            /\ procs[k].w.st = "calling"
                                            /\ procs[k].stage = "request"})

\* C14: in every state of a batch run, also after an attempt timed out and the wrapper
\* went on to a retry or to the next scene, at most one generation request is in
\* flight
C14_OneInFlight ==
    (nops = 1 /\ procs[1].kind = "batch") => InFlight <= 1

\* the success statuses of HTTP
SuccessStatus(status) == status \in 200..299

\* C15: on a response whose status is not a success status generateImage and
\* generateText fail with an error carrying the status and the status text, without
\* reading the body; every call issues exactly one HTTP request
C15_TransportErrorContract ==
    /\ httpOut.fetches <= 1
    /\ ~SuccessStatus(httpIn.status) => ~httpOut.jsonRead
    /\ httpOut.done =>
        /\ httpOut.fetches = 1
        /\ ~SuccessStatus(httpIn.status) =>
               /\ ~httpOut.result.ok /\ httpOut.result.kind = "http"
               /\ httpOut.result.detail =
                      ToString(httpIn.status) \o " " \o httpIn.statusText

\* generateImage was answered 429 and failed with "429 Too Many Requests"
C15_Witness ==
    /\ httpOut.done /\ httpIn.fn = "image" /\ httpIn.status = 429
    /\ httpIn.statusText = "Too Many Requests"
    /\ httpOut.result.kind = "http" /\ httpOut.result.detail = "429 Too Many Requests"
    /\ httpOut.fetches = 1 /\ ~httpOut.jsonRead

InFirstPass(x) == x.phase = "first"
InRetryPass(x) == x.phase = "retry"
HasFailed(x) == x.out = "failed"

\* the invocations a batch made in its first pass and in its retry pass, and the
\* storyboards whose first-pass invocation failed, in the order they failed
FirstPassOf(p) == SelectSeq(p.inv, InFirstPass)
RetryPassOf(p) == SelectSeq(p.inv, InRetryPass)
FirstPassFailures(p) == SelectSeq(FirstPassOf(p), HasFailed)

Range(q) == {q[n] : n \in 1..Len(q)}

IsBatch(p) == p.kind = "batch" /\ ~p.noop

\* C16: the first pass of a batch gives every storyboard exactly one wrapped
\* invocation with policy (3, 800), in array order, whatever the earlier outcomes; a
\* storyboard whose invocation exhausted its retries is recorded as failed and the
\* iteration goes on with the next storyboard
C16_FirstPassCoversAll ==
    /\ [](\A k \in Ops :
            LET p == procs[k]
                F == FirstPassOf(p)
            IN  IsBatch(p) =>
                    /\ Len(F) <= NumStoryboards
                    /\ \A j \in 1..Len(F) :
                           /\ F[j].sb = j
                           /\ F[j].maxRetries = 3 /\ F[j].baseDelayMs = 800
                           /\ F[j].out = "failed" => j \in Range(p.failedSbs)
                           /\ j < Len(F) => F[j].out # "pending"
                    /\ (p.phase = "retry" \/ p.pc = "done") => Len(F) = NumStoryboards
                    /\ p.pc # "fatal")
    /\ [][\A k \in Ops : \A j \in Storyboards :
              (/\ IsBatch(procs[k]) /\ procs[k].phase = "first"
               /\ Len(procs[k].inv) = j /\ procs[k].inv[j].out = "pending"
               /\ procs'[k].inv[j].out = "failed") =>
                  /\ procs[k].live => j \in failedIds'
                  /\ j < NumStoryboards =>
                         /\ Len(procs'[k].inv) = j + 1
                         /\ procs'[k].inv[j + 1] = Invocation("first", j + 1, 3, 800)
         ]_vars

\* a batch finished whose first scene exhausted its first-pass retries and whose
\* second scene then succeeded
C16_Witness ==
    \E k \in Ops :
        /\ IsBatch(procs[k]) /\ procs[k].pc = "done"
        /\ Len(FirstPassOf(procs[k])) = NumStoryboards
        /\ procs[k].inv[1].out = "failed" /\ procs[k].inv[2].out = "ok"

\* C18: after the first pass each storyboard that failed in it gets exactly one more
\* wrapped invocation, with policy (2, 1200), in the order they failed; a storyboard
\* that succeeded in the first pass is not invoked again, and one that fails the
\* retry pass is not invoked a third time
C18_OneRetryPass ==
    \A k \in Ops :
        LET p == procs[k]
            F == FirstPassOf(p)
            R == RetryPassOf(p)
            failed == FirstPassFailures(p)
        IN  IsBatch(p) =>
                /\ p.inv = F \o R
                /\ R # <<>> => Len(F) = NumStoryboards
                /\ Len(R) <= Len(failed)
                /\ \A j \in 1..Len(R) :
                       /\ R[j].sb = failed[j].sb
                       /\ R[j].maxRetries = 2 /\ R[j].baseDelayMs = 1200
                /\ p.pc = "done" => Len(R) = Len(failed)

\* a batch finished in which scenes 1 and 3 failed the first pass, scene 1 succeeded
\* in the retry pass and scene 3 failed it again
C18_Witness ==
    \E k \in Ops :
        /\ IsBatch(procs[k]) /\ procs[k].pc = "done"
        /\ [n \in 1..Len(procs[k].inv) |-> procs[k].inv[n].sb] = <<1, 2, 3, 1, 3>>
        /\ [n \in 1..Len(procs[k].inv) |-> procs[k].inv[n].out]
               = <<"failed", "ok", "failed", "ok", "failed">>

\* the only invocation is a batch, and it has finished
LoneBatchFinished ==
    /\ nops = 1 /\ IsBatch(procs[1]) /\ procs[1].pc = "done"

\* C17: when a batch finishes, the failed set holds exactly the storyboards that have
\* no image in the final result list: every one that failed both passes, none whose
\* retry succeeded
C17_FailedSetComplete ==
    LoneBatchFinished =>
        failedIds = Storyboards \ Range(Ids(procs[1].list))

NoDuplicates(list) ==
    \A x, y \in 1..Len(list) : list[x].storyboardId = list[y].storyboardId => x = y

\* C19: whatever the order and overlap of batches, regenerations and retry-all runs,
\* the result list and every list handed to onImagesGenerated hold at most one image
\* per storyboard id
C19_NoDuplicateEntries ==
    /\ NoDuplicates(generatedImages)
    /\ NoDuplicates(emitted)
    /\ \A k \in Ops : NoDuplicates(procs[k].list)

\* a regeneration of a storyboard that already had an image finished by replacing it,
\* and that list was handed to onImagesGenerated
C19_Witness ==
    \E k \in Ops :
        /\ procs[k].kind = "regen" /\ procs[k].pc = "done"
        /\ FindIndex(procs[k].gImgs, procs[k].sb) >= 1
        /\ Len(procs[k].gImgs) >= 2
        /\ generatedImages = procs[k].list /\ emitted = procs[k].list
        /\ Img(procs[k].sb, k) \in Range(generatedImages)
        /\ Len(generatedImages) = Len(procs[k].gImgs)

\* a regeneration or a retry-all run was started while a batch or a regeneration was
\* in progress
Overlapped ==
    \E k \in Ops :
        /\ procs[k].kind \in {"regen", "retryAll"} /\ ~procs[k].noop
        /\ \E j \in procs[k].during : procs[j].kind \in {"batch", "regen"}

\* every invocation has returned
AllFinished == \A k \in Ops : procs[k].pc \in {"idle", "done", "fatal"}

\* C20: when a regeneration or a retry-all run overlapped a batch or another
\* regeneration and all of them have finished, the result list, the one the parent
\* was handed last, holds for every storyboard that had a successful generation its
\* most recently completed image
C20_NoLostResults ==
    (AllFinished /\ Overlapped) =>
        \A sb \in Storyboards :
            latest[sb] # 0 => Img(sb, latest[sb]) \in Range(emitted)

\* the batch runs in progress
ActiveBatches == {k \in Ops : IsBatch(procs[k]) /\ procs[k].pc \notin {"done", "fatal"}}

\* C21: two batch runs are never active at once, also when a manual regeneration of
\* a scene not yet generated ran during the batch and set currentGenerating to null
C21_BatchNonReentrant == Cardinality(ActiveBatches) <= 1

HasSucceeded(x) == x.out = "ok"

\* the storyboards of the successful invocations of q, in the order of q
OkSbs(q) == LET ok == SelectSeq(q, HasSucceeded) IN [n \in 1..Len(ok) |-> ok[n].sb]

Increasing(q) == \A x, y \in 1..Len(q) : x < y => q[x] < q[y]

\* C22: during a batch run its result list only grows by appending; the first-pass
\* successes come first, in storyboard order, followed by the retry-pass successes,
\* in storyboard order
C22_ResultListOrder ==
    /\ [](\A k \in Ops :
            LET p == procs[k]
            IN  IsBatch(p) =>
                    /\ Ids(p.list) = OkSbs(FirstPassOf(p)) \o OkSbs(RetryPassOf(p))
                    /\ Increasing(OkSbs(FirstPassOf(p)))
                    /\ Increasing(OkSbs(RetryPassOf(p)))
                    /\ (nops = 1 /\ p.live /\ p.list # <<>>) => generatedImages = p.list)
    /\ [][\A k \in Ops :
              (IsBatch(procs[k]) /\ procs'[k].list # procs[k].list) =>
                  /\ Len(procs'[k].list) = Len(procs[k].list) + 1
                  /\ SubSeq(procs'[k].list, 1, Len(procs[k].list)) = procs[k].list
                  /\ procs[k].live => generatedImages' = procs'[k].list
         ]_vars

\* a batch finished in which scenes 1 and 2 failed the first pass and succeeded in
\* the retry pass: the list is scene 3, scene 1, scene 2
C22_Witness ==
    \E k \in Ops :
        /\ IsBatch(procs[k]) /\ procs[k].pc = "done"
        /\ Ids(procs[k].list) = <<3, 1, 2>>
        /\ generatedImages = procs[k].list

\* C23: a batch that completes its loops calls onImagesGenerated exactly once, after
\* the retry pass, with its final list, and sets currentGenerating to null; the final
\* error is the summary counting the storyboards without image when there are any,
\* and null exactly when every storyboard has an image
C23_TerminalCallback ==
    /\ [](\A k \in Ops :
            IsBatch(procs[k]) =>
                /\ procs[k].emits = (IF procs[k].pc = "done" THEN 1 ELSE 0)
                /\ procs[k].pc = "done" =>
                       /\ Len(FirstPassOf(procs[k])) = NumStoryboards
                       /\ Len(RetryPassOf(procs[k])) = Len(FirstPassFailures(procs[k]))
                       /\ \A j \in 1..Len(procs[k].inv) : procs[k].inv[j].out # "pending")
    /\ [][\A k \in Ops :
              (IsBatch(procs'[k]) /\ procs[k].pc # "done" /\ procs'[k].pc = "done") =>
                  LET list == procs'[k].list
                      missing == Storyboards \ Range(Ids(list))
                  IN  /\ emitted' = list
                      /\ step' = "result"
                      /\ procs[k].live =>
                             /\ currentGenerating' = NullCG
                             /\ missing # {} => error' = RemainError(Cardinality(missing))
                             /\ missing = {} <=> error' = NoError
         ]_vars

\* a lone batch finished with two images out of three and the summary for one
\* remaining scene
C23_Witness ==
    /\ LoneBatchFinished
    /\ Len(procs[1].list) = 2 /\ emitted = procs[1].list
    /\ error = RemainError(1) /\ currentGenerating = NullCG
    /\ procs[1].emits = 1

\* invocation k of the steps has just started a wrapped invocation of the retry
\* wrapper: its history grew by one
NewInvocation(k) == Len(procs'[k].inv) = Len(procs[k].inv) + 1

\* C24: in a batch a pacing sleep of 1000 ms follows a first-pass success and of
\* 800 ms a retry-pass success, except after the final item of either pass; two
\* consecutive scene requests of which the first succeeded are always separated by a
\* pacing sleep
C24_InterItemPacing ==
    [][\A k \in Ops :
          LET p == procs[k]
              q == procs'[k]
              n == Len(p.inv)
          IN  (IsBatch(p) /\ n >= 1) =>
                  /\ (p.inv[n].out = "pending" /\ q.inv[n].out = "ok"
                        /\ p.phase = "first" /\ p.sb < NumStoryboards) =>
                         (q.pc = "pace" /\ q.paceMs = 1000)
                  /\ (p.inv[n].out = "pending" /\ q.inv[n].out = "ok"
                        /\ p.phase = "retry" /\ Len(RetryPassOf(p)) < Len(p.failedSbs)) =>
                         (q.pc = "pace" /\ q.paceMs = 800)
                  /\ (p.inv[n].out = "pending" /\ q.inv[n].out # "pending"
                        /\ \/ p.phase = "first" /\ p.sb = NumStoryboards
                           \/ p.phase = "retry" /\ Len(RetryPassOf(p)) = Len(p.failedSbs)) =>
                         q.pc # "pace"
                  /\ (NewInvocation(k) /\ q.inv[n].out = "ok") => p.pc = "pace"
      ]_vars

\* the base64 image payloads of an envelope: the long strings in the image fields of
\* its images entries and of its content parts
LongOnes(S) == {x \in S : Len(x) > 1000}

EntryPayloads(images) ==
    UNION {LongOnes(FieldStrings(images.items[n].image_url)
                    \cup FieldStrings(images.items[n].b64_json)) : n \in 1..Len(images.items)}

ImagePayloads(data) ==
    EntryPayloads(data.images) \cup EntryPayloads(data.msgImages)
    \cup UNION {LongOnes(PartStrings(data.content.parts[n]) \ FieldStrings(data.content.parts[n].text)) :
                  n \in 1..Len(data.content.parts)}

\* C25: no log record written by generateImage holds a complete base64 image payload
\* of the response
C25_LogRedaction ==
    parsed # Pending =>
        \A l \in logged : \A pl \in ImagePayloads(envelope) : ~Includes(l, pl)

\* the elements of a set of storyboards in array order
InArrayOrder(S) ==
    CHOOSE q \in [1..Cardinality(S) -> S] : Increasing(q) /\ Range(q) = S

\* invocation k is a retryAllFailed that ran its loop with no other handler running
\* from its start to its end, and has finished
RetryAllAlone(k) ==
    /\ procs[k].kind = "retryAll" /\ ~procs[k].noop /\ procs[k].pc = "done"
    /\ procs[k].during = {} /\ nops = k

Succeeded(p) == Range(OkSbs(p.inv))

\* C26: retryAllFailed run alone over a non-empty failed set F invokes the wrapper
\* with (2, 1200) once per storyboard of F, in array order; at its end the failed set
\* is F minus the storyboards that succeeded, each success is in the result list
\* under its storyboard id, the other entries are as they were, and progress and the
\* result list were not reset
C26_RetryAllBookkeeping ==
    /\ [](\A k \in Ops :
            RetryAllAlone(k) =>
                LET p == procs[k]
                    F == p.fIds
                    ok == Succeeded(p)
                    new == {sb \in ok : sb \notin Range(Ids(p.gImgs))}
                IN  /\ F # {}
                    /\ [n \in 1..Len(p.inv) |-> p.inv[n].sb] = InArrayOrder(F)
                    /\ \A n \in 1..Len(p.inv) :
                           p.inv[n].maxRetries = 2 /\ p.inv[n].baseDelayMs = 1200
                    /\ failedIds = F \ ok
                    /\ NoDuplicates(generatedImages)
                    /\ Len(generatedImages) = Len(p.gImgs) + Cardinality(new)
                    /\ \A sb \in ok : Img(sb, k) \in Range(generatedImages)
                    /\ \A x \in 1..Len(p.gImgs) :
                           IF p.gImgs[x].storyboardId \in ok
                           THEN generatedImages[x] = Img(p.gImgs[x].storyboardId, k)
                           ELSE generatedImages[x] = p.gImgs[x])
    /\ [][\A k \in Ops :
              (/\ procs'[k].kind = "retryAll" /\ procs'[k] # procs[k]
               /\ procs'[k].during = {} /\ nops' = k) =>
                  /\ progress' = progress
                  /\ Len(generatedImages') >= Len(generatedImages)
         ]_vars

\* the batch run of invocation 1 is at its end: the terminal callback or the
\* batch-fatal error was reported and currentGenerating is null
BatchTerminal ==
    procs[1].pc \in {"done", "fatal"} /\ currentGenerating = NullCG

\* C27: with timers and sleeps eventually firing, a batch run that was started
\* eventually reaches its terminal state, whether or not its requests, the bootstrap
\* request included, are ever answered
C27_BatchTerminates == IsBatch(procs[1]) ~> BatchTerminal

RECURSIVE SumTo(_, _)
SumTo(f, n) == IF n = 0 THEN 0 ELSE f[n] + SumTo(f, n - 1)

\* the requests the batch of invocation 1 has issued so far
RequestsIssued == procs[1].bootReqs + SumTo(attempts.n, NumStoryboards)

\* C28: a batch run over n storyboards issues at most one bootstrap request and at
\* most 7 attempts per storyboard, 4 in the first pass and 3 in the retry pass, hence
\* at most 1 + 7n requests; a storyboard that succeeds at attempt k of the first pass
\* accounts for exactly k attempts
C28_BoundedRequests ==
    /\ [](/\ procs[1].bootReqs <= 1
          /\ \A sb \in Storyboards : attempts.n[sb] <= 7
          /\ RequestsIssued <= 1 + 7 * NumStoryboards
          /\ RetryPassOf(procs[1]) = <<>> => \A sb \in Storyboards : attempts.n[sb] <= 4
          /\ \A n \in 1..Len(procs[1].inv) :
                 LET x == procs[1].inv[n]
                 IN  (x.phase = "first" /\ x.out = "ok") => attempts.n[x.sb] \in 1..4)
    /\ [][LET p == procs[1]
              n == Len(p.inv)
          IN  /\ (/\ n >= 1 /\ p.phase = "first" /\ p.inv[n].out = "pending"
                   /\ procs'[1].inv[n].out = "ok") =>
                      attempts'.n[p.sb] = p.w.attempt + 1
              /\ \A m \in 1..n :
                     (p.inv[m].phase = "first" /\ p.inv[m].out = "ok") =>
                         attempts'.n[p.inv[m].sb] = attempts.n[p.inv[m].sb]
         ]_vars

\* a batch finished in which scene 1 used all 7 attempts, scene 2 succeeded at its
\* second first-pass attempt and scene 3 at its first
C28_Witness ==
    /\ IsBatch(procs[1]) /\ procs[1].pc = "done"
    /\ attempts.n = <<7, 2, 1>>
    /\ Ids(procs[1].list) = <<2, 3>>

\* C29: when an attempt was given up at the 35 s deadline and its request settles
\* later, with an image or with an error, nothing of the component changes: no entry
\* is added to the result list, none to the failed set, nothing is emitted and no
\* handler moves; the step at which the deadline settles the attempt takes the
\* failure path of the retry loop and adds no image
C29_LateResultsDiscarded ==
    /\ [][(abandoned' < abandoned \/ abandonedFetches' < abandonedFetches) =>
             UNCHANGED <<generatedImages, failedIds, gaiFailedIds, emitted, progress,
                         currentGenerating, error, referenceReady, procs, latest>>]_vars
    /\ [][\A k \in Ops :
             (/\ abandoned' + abandonedFetches' > abandoned + abandonedFetches
              /\ procs'[k] # procs[k]) =>
                 /\ procs'[k].inv[Len(procs[k].inv)].out \in {"pending", "failed"}
                 /\ Len(generatedImages') <= Len(generatedImages)
                 /\ latest' = latest]_vars

\* a batch without a character image gave up scene 2 in its first pass on an attempt
\* that timed out (the error shown is the timeout's) and went on to scene 3; the
\* requests given up have settled since, and scene 2 is in the failed set with no
\* image in the list
C29_Witness ==
    /\ IsBatch(procs[1]) /\ procs[1].cImg = NoCharacter
    /\ procs[1].pc = "call" /\ procs[1].sb = 3
    /\ error = SceneFailedError(2, "timeout")
    /\ abandoned = 0 /\ abandonedFetches = 0
    /\ 2 \in failedIds
    /\ \A n \in 1..Len(generatedImages) : generatedImages[n].storyboardId # 2

\* the texts an identity can be taken from: the trimmed description and the story's
\* first 300 characters
IdentityTexts ==
    {Trim(gsiIn.characterPrompt),
     SubSeq(gsiIn.story, 1, IF Len(gsiIn.story) < 300 THEN Len(gsiIn.story) ELSE 300)} \ {""}

BootstrapNames(x) ==
    eriOut.sent /\ EndsWith(eriOut.prompt, "\n\nMain character identity: " \o x)
HintNames(x) ==
    gsiOut.sent /\ EndsWith(gsiOut.prompt, "\n\n" \o HintAround(x))


====
